---- MODULE Spec2Model ----
(***************************************************************************)
(* Particle engine of src/particle_system.cpp: Particle, the pooled        *)
(* ParticleEmitter (emit / burst / update / clear) and its emission        *)
(* schedules.                                                              *)
(*                                                                         *)
(* Numbers.  Every float of the source is an integer here.                 *)
(*  - Times (dt, age, lifetime, burstTimer, burstInterval) are counted in  *)
(*    units of 2^-29 second: OneSecond = 2^29.  F32Add adds two times and  *)
(*    rounds the sum to a 24-bit significand (round to nearest, ties to    *)
(*    even) as IEEE-754 binary32 addition does; on times below 2^24 units  *)
(*    the addition is exact.                                               *)
(*  - emissionAccumulator counts particles in units of 1/AccOne particle;  *)
(*    emissionRate is in accumulator units per time unit.                  *)
(*  - Vec2 is a pair of integers.                                          *)
(***************************************************************************)
EXTENDS Integers, Sequences, FiniteSets, TLC

(***************************************************************************)
(* Bounds of the model                                                     *)
(***************************************************************************)
\* value of maxParticles when the constructor runs init() (5000 in the source)
DefaultMaxParticles == 2
\* largest count the host passes to emit()
MaxEmitCount == 3

(***************************************************************************)
(* binary32 addition of times                                              *)
(***************************************************************************)
OneSecond == 536870912     \* 2^29 time units

RECURSIVE Pow2(_)
Pow2(n) == IF n = 0 THEN 1 ELSE 2 * Pow2(n - 1)

\* number of low bits binary32 drops from the non-negative integer v
RECURSIVE DroppedBits(_)
DroppedBits(v) == IF v < 16777216 THEN 0 ELSE 1 + DroppedBits(v \div 2)

\* v rounded to a 24-bit significand, round to nearest, ties to even
RoundF32(v) ==
    LET q    == Pow2(DroppedBits(v))
        r    == v % q
        base == v - r
    IN  IF 2 * r < q THEN base
        ELSE IF 2 * r > q THEN base + q
        ELSE IF (base \div q) % 2 = 0 THEN base ELSE base + q

\* addition without the rounding of binary32
F32Add_Exact(a, b) == a + b

F32Add(a, b) == RoundF32(a + b)

(***************************************************************************)
(* Vec2 (src/utils.cpp)                                                    *)
(***************************************************************************)
\* F applied to the value of x: x is computed once, however often F uses it
Bind(x, F(_)) == CHOOSE r \in {F(v) : v \in {x}} : TRUE

Min(a, b) == IF a <= b THEN a ELSE b
Max(a, b) == IF a >= b THEN a ELSE b
Range(seq) == {seq[i] : i \in 1..Len(seq)}

Vec2Zero == <<0, 0>>
Vec2Add(a, b) == <<a[1] + b[1], a[2] + b[2]>>
Vec2Scale(a, s) == <<a[1] * s, a[2] * s>>
Vec2Sub(a, b) == <<a[1] - b[1], a[2] - b[2]>>
Vec2LengthSq(v) == v[1] * v[1] + v[2] * v[2]
Vec2Perpendicular(v) == <<-v[2], v[1]>>
\* v turned by n quarter turns: target + fromAngle(angle + n, dist) keeps the
\* distance and is exact on the integer grid
RECURSIVE Vec2QuarterTurns(_, _)
Vec2QuarterTurns(v, n) ==
    IF n = 0 THEN v ELSE Vec2QuarterTurns(Vec2Perpendicular(v), n - 1)

(***************************************************************************)
(* Vec2::length and Vec2::normalized with the range of binary32.           *)
(* A vector here is [x, y, e]: the components x * 2^e and y * 2^e with     *)
(* small integers x, y.  A binary32 product or sum m * 2^e becomes 0 below *)
(* 2^-150 and infinity from 2^128 on (F32Range); the rounding of the       *)
(* significand and of subnormal results is not modelled.  A quotient is    *)
(* the exact fraction <<numerator, denominator>>; denominator 0 is NaN.    *)
(***************************************************************************)
Abs(n) == IF n < 0 THEN -n ELSE n

\* number of bits of m > 0, so that 2^(BitLen(m) - 1) <= m < 2^BitLen(m)
RECURSIVE BitLen(_)
BitLen(m) == IF m = 0 THEN 0 ELSE 1 + BitLen(m \div 2)

F32Zero == [m |-> 0, e |-> 0, inf |-> FALSE]
F32Inf == [m |-> 1, e |-> 0, inf |-> TRUE]
\* the binary32 value of m * 2^e, m >= 0: underflow to 0, overflow to infinity
F32Range(m, e) ==
    IF m = 0 THEN F32Zero
    ELSE IF BitLen(m) - 1 + e < -150 THEN F32Zero
    ELSE IF BitLen(m) - 1 + e >= 128 THEN F32Inf
    ELSE [m |-> m, e |-> e, inf |-> FALSE]

\* std::sqrt on a non-negative integer (exact on perfect squares)
ISqrt(m) == CHOOSE r \in 0..m : r * r <= m /\ (r + 1) * (r + 1) > m

\* Vec2::length(): std::sqrt(x * x + y * y)
Vec2Length(v) ==
    LET xx == F32Range(v.x * v.x, 2 * v.e)
        yy == F32Range(v.y * v.y, 2 * v.e)
        sum == IF xx.inf \/ yy.inf THEN F32Inf
               ELSE F32Range(xx.m + yy.m, 2 * v.e)
    IN  IF sum.inf THEN F32Inf
        ELSE IF sum.m = 0 THEN F32Zero
        ELSE [m |-> ISqrt(sum.m), e |-> v.e, inf |-> FALSE]

RatZeroVec == <<<<0, 1>>, <<0, 1>>>>

\* normalized() that divides without looking at len
normalized_Unguarded(v) ==
    <<<<v.x, Vec2Length(v).m>>, <<v.y, Vec2Length(v).m>>>>

\* Vec2::normalized(): len > 0 ? Vec2(x / len, y / len) : Vec2(0, 0); a finite
\* component divided by an infinite len is 0
normalized(v) ==
    LET len == Vec2Length(v)
    IN  IF len.inf THEN RatZeroVec
        ELSE IF len.m > 0 THEN <<<<v.x, len.m>>, <<v.y, len.m>>>>
        ELSE RatZeroVec

(***************************************************************************)
(* ForceField.  A field is [position, radius, strength, falloff, type].    *)
(* One length unit is 0.0005, so that the 0.001f of the centre test is     *)
(* Epsilon = 2 units.  A distance is compared through its square; where    *)
(* its value is needed (the magnitude, the direction) it is the integer    *)
(* square root, and a vector of the grid is [x, y, 0] for normalized.      *)
(***************************************************************************)
Epsilon == 2


\* distance > radius and distance < eps for distance = sqrt(dsq)
DistanceGreater(dsq, radius) == radius < 0 \/ dsq > radius * radius
DistanceLess(dsq, eps) == dsq < eps * eps

RECURSIVE IntPow(_, _)
IntPow(b, n) == IF n = 0 THEN 1 ELSE b * IntPow(b, n - 1)

\* a / b rounded towards zero, b > 0
TruncDiv(a, b) == IF a >= 0 THEN a \div b ELSE -((-a) \div b)

\* v.normalized() * magnitude
Vec2Along(v, magnitude) ==
    LET n == normalized([x |-> v[1], y |-> v[2], e |-> 0])
    IN  <<TruncDiv(n[1][1] * magnitude, n[1][2]),
          TruncDiv(n[2][1] * magnitude, n[2][2])>>

\* strength * pow(1 - distance / radius, falloff)
forceMagnitude(field, dsq) ==
    TruncDiv(field.strength * IntPow(field.radius - ISqrt(dsq), field.falloff),
             IntPow(field.radius, field.falloff))

\* the switch of getForce; dir is Vec2::fromAngle of the random angle
forceOfType(field, diff, dir) ==
    LET mag == forceMagnitude(field, Vec2LengthSq(diff))
    IN  CASE field.type = "ATTRACT" -> Vec2Along(diff, mag)
          [] field.type = "REPEL" -> Vec2Along(diff, -mag)
          [] field.type = "TURBULENCE" -> Vec2Scale(dir, mag)
          [] field.type = "VORTEX" -> Vec2Along(Vec2Perpendicular(diff), mag)

\* getForce without the test against radius (for fields of a non-zero radius)
getForce_NoRadiusTest(field, particlePos, dir) ==
    LET diff == Vec2Sub(field.position, particlePos)
    IN  IF field.radius = 0 \/ DistanceLess(Vec2LengthSq(diff), Epsilon)
        THEN Vec2Zero
        ELSE forceOfType(field, diff, dir)

\* ForceField::getForce
getForce(field, particlePos, dir) ==
    LET diff == Vec2Sub(field.position, particlePos)
    IN  IF \/ DistanceGreater(Vec2LengthSq(diff), field.radius)
           \/ DistanceLess(Vec2LengthSq(diff), Epsilon)
        THEN Vec2Zero
        ELSE forceOfType(field, diff, dir)

(***************************************************************************)
(* State                                                                   *)
(***************************************************************************)
VARIABLES
    particles,            \* the Particle objects that exist, by identity
    activeParticles,      \* ParticleEmitter::activeParticles (identities, in order)
    particlePool,         \* ParticleEmitter::particlePool (identities, back = last)
    maxParticles,         \* ParticleEmitter::maxParticles
    active,               \* ParticleEmitter::active
    burstMode,            \* ParticleEmitter::burstMode
    burstCount,           \* ParticleEmitter::burstCount
    burstInterval,        \* ParticleEmitter::burstInterval
    burstTimer,           \* ParticleEmitter::burstTimer
    emissionRate,         \* ParticleEmitter::emissionRate
    emissionAccumulator,  \* ParticleEmitter::emissionAccumulator
    lifetimeRange,        \* ParticleEmitter::lifetimeRange
    gravity,              \* ParticleEmitter::gravity
    behaviors,            \* ParticleEmitter::behaviors
    blendMode,            \* ParticleEmitter::blendMode
    forceFields,          \* ParticleEmitter::forceFields
    pattern,              \* ParticleEmitter::pattern
    spiralAngle,          \* the static spiralAngle of getEmissionPosition, in
                          \* units of 0.5 (one per SPIRAL emission)
    onParticleSpawn,      \* ParticleEmitter::onParticleSpawn ("unset": empty)
    harness               \* the driver's own counters (no field of the emitter)

emitterVars == <<particles, activeParticles, particlePool, maxParticles, active,
                 burstMode, burstCount, burstInterval, burstTimer, emissionRate,
                 emissionAccumulator, lifetimeRange, gravity, behaviors,
                 blendMode, forceFields, pattern, spiralAngle, onParticleSpawn>>
vars == <<particles, activeParticles, particlePool, maxParticles, active,
          burstMode, burstCount, burstInterval, burstTimer, emissionRate,
          emissionAccumulator, lifetimeRange, gravity, behaviors,
          blendMode, forceFields, pattern, spiralAngle, onParticleSpawn,
          harness>>

\* one particle of emissionAccumulator
AccOne == 4

ParticleIds == 1..DefaultMaxParticles

(***************************************************************************)
(* Emitter configuration that no action of the model changes               *)
(***************************************************************************)
emitterPosition == <<1, 1>>
wind == Vec2Zero
drag == <<1, 1>>                      \* numerator, denominator
targetPosition == <<2, 0>>
patternRadius == 8
\* Particle::behaviorStrength, in quarter turns per time unit for SWIRL
behaviorStrength == 1
enableTrails == TRUE
trailLength == 1
\* keyframe time 1.0 of a colour ramp
RampOne == 4
colorRamp == << [t |-> 0, color |-> <<255, 255, 255, 255>>],
                [t |-> RampOne, color |-> <<255, 255, 255, 0>>] >>
\* the velocities getEmissionVelocity can return (angle 0, speed 1)
EmissionVelocities == {<<1, 0>>}
\* the lifetimes randomFloat can return: the floats of this grid that lie in
\* lifetimeRange (0.5 s, the last floats below 1.0 s, 1.0 s, and the small ones)
LifetimeGrid ==
    (-1..2) \cup {OneSecond \div 2, OneSecond - 192, OneSecond - 160,
                           OneSecond - 32, OneSecond}
Lifetimes == {l \in LifetimeGrid : lifetimeRange[1] <= l /\ l <= lifetimeRange[2]}
\* what one emitted particle draws from the random generator
RandomDraw == [lifetime : Lifetimes, velocity : EmissionVelocities]

(***************************************************************************)
(* Particle                                                                *)
(***************************************************************************)
\* Particle::reset(): every field it assigns; colorRamp is not among them
ParticleReset(p) ==
    [p EXCEPT !.position = Vec2Zero,
              !.velocity = Vec2Zero,
              !.acceleration = Vec2Zero,
              !.age = 0,
              !.trail = <<>>,
              !.behaviors = <<>>,
              !.lifetime = OneSecond,
              !.maxTrailLength = 0,
              !.target = Vec2Zero,
              !.drag = drag,
              !.blendMode = "ADD"]

\* Particle::Particle(): the member initialisers, then reset()
NewParticle ==
    ParticleReset([position |-> Vec2Zero, velocity |-> Vec2Zero,
                   acceleration |-> Vec2Zero, age |-> 0, lifetime |-> OneSecond,
                   trail |-> <<>>, maxTrailLength |-> 0, behaviors |-> <<>>,
                   target |-> Vec2Zero, colorRamp |-> <<>>, blendMode |-> "ADD",
                   drag |-> drag])

\* isAlive() with <= for <
isAlive_NonStrict(p) == p.age <= p.lifetime

isAlive(p) == p.age < p.lifetime

\* Particle::applyForce with mass 1
applyForce(p, force) == [p EXCEPT !.acceleration = Vec2Add(p.acceleration, force)]

\* Particle::applyBehaviors: the behaviors in the order attached
RECURSIVE applyBehaviors(_, _, _)
applyBehaviors(p, i, dt) ==
    IF i > Len(p.behaviors) THEN p
    ELSE IF p.behaviors[i] = "GRAVITY"
         THEN Bind(applyForce(p, <<0, 1>>),
                   LAMBDA q : applyBehaviors(q, i + 1, dt))
    ELSE IF p.behaviors[i] = "SWIRL"
         THEN Bind([p EXCEPT !.position =
                        Vec2Add(p.target,
                                Vec2QuarterTurns(Vec2Sub(p.position, p.target),
                                                 dt * behaviorStrength))],
                   LAMBDA q : applyBehaviors(q, i + 1, dt))
    ELSE applyBehaviors(p, i + 1, dt)

\* the trail part of Particle::update without the pop_front loop
TrailPush_NoPop(p) ==
    IF p.maxTrailLength > 0
    THEN [p EXCEPT !.trail = Append(p.trail, p.position)]
    ELSE p

\* the trail part of Particle::update
TrailPush(p) ==
    IF p.maxTrailLength > 0
    THEN LET t == Append(p.trail, p.position)
             n == Len(t)
         IN  [p EXCEPT !.trail = IF n > p.maxTrailLength
                                 THEN SubSeq(t, n - p.maxTrailLength + 1, n)
                                 ELSE t]
    ELSE p

\* Particle::update that assigns age = dt instead of adding
ParticleUpdate_AgeAssigned(p, dt) ==
    [p EXCEPT !.age = dt, !.acceleration = Vec2Zero]

\* Particle::update without `acceleration = { 0, 0 }`
ParticleUpdate_KeepsAcceleration(p, dt) ==
    Bind(applyBehaviors([p EXCEPT !.age = F32Add(p.age, dt)], 1, dt), LAMBDA p2 :
    Bind(Vec2Add(p2.velocity, Vec2Scale(p2.acceleration, dt)), LAMBDA v1 :
    Bind(<<(v1[1] * p2.drag[1]) \div p2.drag[2],
           (v1[2] * p2.drag[1]) \div p2.drag[2]>>, LAMBDA v2 :
    Bind([p2 EXCEPT !.velocity = v2,
                    !.position = Vec2Add(p2.position, Vec2Scale(v2, dt))],
         LAMBDA p3 : TrailPush(p3)))))

\* Particle::update(dt)
ParticleUpdate(p, dt) ==
    Bind(applyBehaviors([p EXCEPT !.age = F32Add(p.age, dt)], 1, dt), LAMBDA p2 :
    Bind(Vec2Add(p2.velocity, Vec2Scale(p2.acceleration, dt)), LAMBDA v1 :
    Bind(<<(v1[1] * p2.drag[1]) \div p2.drag[2],
           (v1[2] * p2.drag[1]) \div p2.drag[2]>>, LAMBDA v2 :
    Bind([p2 EXCEPT !.velocity = v2,
                    !.position = Vec2Add(p2.position, Vec2Scale(v2, dt)),
                    !.acceleration = Vec2Zero],
         LAMBDA p3 : TrailPush(p3)))))

(***************************************************************************)
(* ParticleEmitter: pool and emission                                      *)
(* The containers travel through the loops as one record                   *)
(* em = [particles, activeParticles, particlePool, deathCalls]; deathCalls *)
(* lists the calls of onParticleDeath one update() makes, each with the    *)
(* particle as the callback sees it, spawnCalls those of onParticleSpawn,   *)
(* updateCalls the particles onParticleUpdate is called for.               *)
(* spiralAngle is the function-static of getEmissionPosition, which every  *)
(* emit() of every emitter advances.                                       *)
(***************************************************************************)
Containers == [particles |-> particles, activeParticles |-> activeParticles,
               particlePool |-> particlePool, deathCalls |-> <<>>,
               updateCalls |-> <<>>, spawnCalls |-> <<>>,
               spiralAngle |-> spiralAngle]

\* ParticleEmitter::init(): the pool the constructor builds
InitialPool == [i \in ParticleIds |-> i]

\* returnToPool that resets the particle and forgets to push it back
returnToPool_NoPush(em, id) ==
    [em EXCEPT !.particles = [i \in (DOMAIN em.particles) \ {id} |->
                                 em.particles[i]]]

\* returnToPool that pushes the particle back whatever the size of the pool
returnToPool_Unconditional(em, id) ==
    [em EXCEPT !.particles[id] = ParticleReset(em.particles[id]),
               !.particlePool = Append(em.particlePool, id)]

\* ParticleEmitter::returnToPool: reset and keep the particle while the pool is
\* below maxParticles; otherwise the unique_ptr goes out of scope (destroyed)
returnToPool(em, id) ==
    IF Len(em.particlePool) < maxParticles
    THEN [em EXCEPT !.particles[id] = ParticleReset(em.particles[id]),
                    !.particlePool = Append(em.particlePool, id)]
    ELSE [em EXCEPT !.particles = [i \in (DOMAIN em.particles) \ {id} |->
                                      em.particles[i]]]

\* the fields emit() assigns to the particle it got from the pool
InitParticle(p, draw) ==
    [p EXCEPT !.position = emitterPosition,
              !.velocity = draw.velocity,
              !.lifetime = draw.lifetime,
              !.colorRamp = colorRamp,
              !.blendMode = blendMode,
              !.drag = drag,
              !.maxTrailLength = IF enableTrails THEN trailLength ELSE 0,
              !.behaviors = behaviors,
              !.target = targetPosition]

\* the SPIRAL case of getEmissionPosition: Vec2::fromAngle(spiralAngle, radius)
\* with radius = patternRadius * fmod(spiralAngle / TWO_PI, 1), on the integer
\* grid: angle is in units of 0.5, pi is taken as 22/7 and the direction is
\* rounded down to a quarter turn
SpiralOffset(angle) ==
    Vec2QuarterTurns(<<(patternRadius * ((7 * angle) % 88)) \div 88, 0>>,
                     ((7 * angle) \div 22) % 4)

\* `spiralAngle += 0.5f` of the SPIRAL case; the other patterns modelled
\* (POINT) leave the static alone
advanceSpiral(em) ==
    IF pattern = "SPIRAL" THEN [em EXCEPT !.spiralAngle = F32Add(@, 1)] ELSE em

\* ParticleEmitter::getEmissionPosition
getEmissionPosition(em) ==
    IF pattern = "SPIRAL"
    THEN Vec2Add(emitterPosition, SpiralOffset(advanceSpiral(em).spiralAngle))
    ELSE emitterPosition

AnyDraw == CHOOSE d \in RandomDraw : TRUE
\* the draw of iteration i where rnd has one, any draw otherwise
DrawAt(rnd, i) == IF i \in DOMAIN rnd THEN rnd[i] ELSE AnyDraw

\* emit() that hands out pool.back() and forgets pop_back()
RECURSIVE emitFrom_NoPop(_, _, _, _)
emitFrom_NoPop(em, i, count, rnd) ==
    IF i < count /\ Len(em.activeParticles) < maxParticles
    THEN IF em.particlePool = <<>>
         THEN em
         ELSE LET id == em.particlePool[Len(em.particlePool)]
              IN  emitFrom_NoPop(
                      [em EXCEPT !.particles[id] = InitParticle(em.particles[id], DrawAt(rnd, i + 1)),
                                 !.activeParticles = Append(em.activeParticles, id)],
                      i + 1, count, rnd)
    ELSE em

\* emit() whose loop runs while i <= count
RECURSIVE emitFrom_OffByOne(_, _, _, _)
emitFrom_OffByOne(em, i, count, rnd) ==
    IF i <= count /\ Len(em.activeParticles) < maxParticles
    THEN IF em.particlePool = <<>>
         THEN em
         ELSE LET n  == Len(em.particlePool)
                  id == em.particlePool[n]
              IN  emitFrom_OffByOne(
                      [em EXCEPT !.particles[id] = InitParticle(em.particles[id], DrawAt(rnd, i + 1)),
                                 !.particlePool = SubSeq(em.particlePool, 1, n - 1),
                                 !.activeParticles = Append(em.activeParticles, id)],
                      i + 1, count, rnd)
    ELSE em

\* the callbacks the host installs as onParticleSpawn: "confetti" gives the
\* particle its own two-point colour ramp, "override" also its own lifetime
ConfettiRamp == << [t |-> 0, color |-> <<255, 0, 0, 255>>],
                   [t |-> RampOne, color |-> <<255, 0, 0, 0>>] >>
SpawnCallback(p) ==
    IF onParticleSpawn = "confetti" THEN [p EXCEPT !.colorRamp = ConfettiRamp]
    ELSE [p EXCEPT !.colorRamp = ConfettiRamp, !.lifetime = 3]

\* `if (onParticleSpawn) onParticleSpawn(*p)` on the initialised particle p
\* with identity id; em.spawnCalls lists the calls with the particle and the
\* active list as the callback finds them
invokeSpawn(em, id, p) ==
    IF onParticleSpawn = "unset"
    THEN [em EXCEPT !.particles[id] = p]
    ELSE [em EXCEPT !.particles[id] = SpawnCallback(p),
                    !.spawnCalls = Append(@, [id |-> id, particle |-> p,
                                              active |-> em.activeParticles])]

\* emit() that calls onParticleSpawn first and initialises the particle then
RECURSIVE emitFrom_SpawnFirst(_, _, _, _)
emitFrom_SpawnFirst(em, i, count, rnd) ==
    IF i < count /\ Len(em.activeParticles) < maxParticles
    THEN IF em.particlePool = <<>>
         THEN em
         ELSE LET n  == Len(em.particlePool)
                  id == em.particlePool[n]
                  em0 == invokeSpawn(advanceSpiral(em), id, em.particles[id])
                  p  == [InitParticle(em0.particles[id], rnd[i + 1])
                            EXCEPT !.position = getEmissionPosition(em)]
              IN  Bind([em0 EXCEPT !.particles[id] = p,
                                   !.particlePool = SubSeq(em.particlePool, 1, n - 1),
                                   !.activeParticles = Append(em.activeParticles, id)],
                       LAMBDA em1 : emitFrom_SpawnFirst(em1, i + 1, count, rnd))
    ELSE em

\* ParticleEmitter::emit(count): the loop from iteration i on; rnd[i + 1] is what
\* iteration i draws
RECURSIVE emitFrom(_, _, _, _)
emitFrom(em, i, count, rnd) ==
    IF i < count /\ Len(em.activeParticles) < maxParticles
    THEN IF em.particlePool = <<>>
         THEN em                                  \* getPooledParticle: nullptr
         ELSE LET n  == Len(em.particlePool)
                  id == em.particlePool[n]        \* getPooledParticle: back()
                  p  == [InitParticle(em.particles[id], rnd[i + 1])
                            EXCEPT !.position = getEmissionPosition(em)]
              IN  Bind([invokeSpawn(advanceSpiral(em), id, p)
                            EXCEPT !.particlePool = SubSeq(em.particlePool, 1, n - 1),
                                   !.activeParticles = Append(em.activeParticles, id)],
                       LAMBDA em1 : emitFrom(em1, i + 1, count, rnd))
    ELSE em

emit(em, count, rnd) == emitFrom(em, 0, count, rnd)

\* how many particles emit(count) takes from the pool (the loop, run once with
\* an arbitrary draw), and the draws it then needs
NumEmitted(em, count) ==
    Len(emit(em, count, [j \in 1..count |-> AnyDraw]).activeParticles)
        - Len(em.activeParticles)
RandomDraws(em, count) == [1..NumEmitted(em, count) -> RandomDraw]

(***************************************************************************)
(* ParticleEmitter::update and clear                                       *)
(***************************************************************************)
\* the force-field loop of update(): getForce at the particle's position for
\* every field, in order (the emitter specifications configure no TURBULENCE
\* field, the only kind whose force has a random direction)
RECURSIVE applyForceFields(_, _)
applyForceFields(p, i) ==
    IF i > Len(forceFields) THEN p
    ELSE Bind(applyForce(p, getForce(forceFields[i], p.position, <<1, 0>>)),
              LAMBDA q : applyForceFields(q, i + 1))

\* the global forces update() applies next: gravity * mass with mass 1, wind;
\* turbulence is 0
applyGlobalForces(p) == applyForce(applyForce(p, gravity), wind)

\* the particle loop with an iterator that also advances after an erase
RECURSIVE updateParticles_SkipAfterErase(_, _, _)
updateParticles_SkipAfterErase(em, it, dt) ==
    IF it > Len(em.activeParticles) THEN em
    ELSE LET id == em.activeParticles[it]
         IN  Bind(ParticleUpdate(applyGlobalForces(
                                     applyForceFields(em.particles[id], 1)), dt),
                  LAMBDA p :
             Bind([em EXCEPT !.particles[id] = p,
                             !.updateCalls = Append(@, id)], LAMBDA em1 :
                 IF ~isAlive(p)
                 THEN Bind(returnToPool(
                               [em1 EXCEPT !.deathCalls =
                                    Append(@, [id |-> id, particle |-> p])], id),
                           LAMBDA em2 :
                      Bind([em2 EXCEPT !.activeParticles =
                                SubSeq(@, 1, it - 1) \o SubSeq(@, it + 1, Len(@))],
                           LAMBDA em3 :
                               updateParticles_SkipAfterErase(em3, it + 1, dt)))
                 ELSE updateParticles_SkipAfterErase(em1, it + 1, dt)))

\* the particle loop of update(): `it` is the iterator's index; a dead particle
\* is returned to the pool and erased, and the iterator stays on the same index
RECURSIVE updateParticles(_, _, _)
updateParticles(em, it, dt) ==
    IF it > Len(em.activeParticles) THEN em
    ELSE LET id == em.activeParticles[it]
         IN  Bind(ParticleUpdate(applyGlobalForces(
                                     applyForceFields(em.particles[id], 1)), dt),
                  LAMBDA p :
             Bind([em EXCEPT !.particles[id] = p,
                             !.updateCalls = Append(@, id)], LAMBDA em1 :
                 IF ~isAlive(p)
                 THEN Bind(returnToPool(
                               [em1 EXCEPT !.deathCalls =
                                    Append(@, [id |-> id, particle |-> p])], id),
                           LAMBDA em2 :
                      Bind([em2 EXCEPT !.activeParticles =
                                SubSeq(@, 1, it - 1) \o SubSeq(@, it + 1, Len(@))],
                           LAMBDA em3 : updateParticles(em3, it, dt)))
                 ELSE updateParticles(em1, it + 1, dt)))

\* continuous emission that does not look at active
ContinuousEmission_IgnoresActive == ~burstMode
\* a burst timer that runs in both modes
BurstScheduling_BothModes == active

\* the two conditions of update(): `burstMode && active`, `!burstMode && active`
BurstScheduling == burstMode /\ active
ContinuousEmission == ~burstMode /\ active

\* continuous emission that restarts the accumulator every frame
AccumulatorAfterAdd_NoCarry(dt) ==
    IF ContinuousEmission THEN dt * emissionRate ELSE emissionAccumulator

\* the schedule part of update(dt): the burst timer, then continuous emission
BurstTimerAfterAdd(dt) ==
    IF BurstScheduling THEN F32Add(burstTimer, dt) ELSE burstTimer
\* a burst test that needs the timer to exceed the interval
BurstFires_Late(dt) == BurstScheduling /\ BurstTimerAfterAdd(dt) > burstInterval
BurstFires(dt) == BurstScheduling /\ BurstTimerAfterAdd(dt) >= burstInterval
AccumulatorAfterAdd(dt) ==
    IF ContinuousEmission THEN emissionAccumulator + dt * emissionRate
    ELSE emissionAccumulator
\* static_cast<int>(emissionAccumulator)
numToEmit(dt) == AccumulatorAfterAdd(dt) \div AccOne
\* the count update(dt) passes to emit(); 0 stands for no call of emit()
ScheduledCount(dt) ==
    IF BurstFires(dt) THEN burstCount
    ELSE IF ContinuousEmission THEN numToEmit(dt)
    ELSE 0

\* update(dt) that runs the particle loop first and emits afterwards
updateResult_PhysicsFirst(dt, rnd) ==
    Bind(updateParticles(Containers, 1, dt),
         LAMBDA em1 : emit(em1, ScheduledCount(dt),
                           [j \in 1..Max(ScheduledCount(dt), 0) |->
                               DrawAt(rnd, j)]))

\* the containers after update(dt): the scheduled emission, then the loop
updateResult(dt, rnd) ==
    Bind(emit(Containers, ScheduledCount(dt), rnd),
         LAMBDA em1 : updateParticles(em1, 1, dt))

\* ParticleEmitter::update(dt) on the emitter's own fields, the emitted
\* particles drawing rnd
EmitterUpdateDrawn(dt, rnd) ==
        LET em == updateResult(dt, rnd)
        IN  /\ particles' = em.particles
            /\ activeParticles' = em.activeParticles
            /\ particlePool' = em.particlePool
            /\ burstTimer' = IF BurstFires(dt) THEN 0 ELSE BurstTimerAfterAdd(dt)
            /\ emissionAccumulator' =
                   IF ContinuousEmission
                   THEN AccumulatorAfterAdd(dt) - numToEmit(dt) * AccOne
                   ELSE emissionAccumulator
            /\ spiralAngle' = em.spiralAngle
            /\ UNCHANGED <<maxParticles, active, burstMode, burstCount,
                           burstInterval, emissionRate, lifetimeRange, gravity,
                           behaviors, blendMode, forceFields, pattern,
                           onParticleSpawn>>

EmitterUpdate(dt) ==
    \E rnd \in RandomDraws(Containers, ScheduledCount(dt)) :
        EmitterUpdateDrawn(dt, rnd)

\* ParticleEmitter::emit(count) called by the host, drawing rnd
EmitterEmitDrawn(count, rnd) ==
    LET em == emit(Containers, count, rnd)
    IN  /\ particles' = em.particles
        /\ activeParticles' = em.activeParticles
        /\ particlePool' = em.particlePool
        /\ spiralAngle' = em.spiralAngle
        /\ UNCHANGED <<maxParticles, active, burstMode, burstCount,
                       burstInterval, burstTimer, emissionRate,
                       emissionAccumulator, lifetimeRange, gravity, behaviors,
                       blendMode, forceFields, pattern, onParticleSpawn>>

\* ParticleEmitter::emit(count) called by the host
EmitterEmit(count) ==
    \E rnd \in RandomDraws(Containers, count) : EmitterEmitDrawn(count, rnd)

\* ParticleEmitter::burst()
EmitterBurst == EmitterEmit(burstCount)

\* clear() that only empties activeParticles
clearFrom_OnlyClear(em, i) == [em EXCEPT !.activeParticles = <<>>]

\* clear() that reports every particle it removes to onParticleDeath
RECURSIVE clearFrom_Notifies(_, _)
clearFrom_Notifies(em, i) ==
    IF i > Len(em.activeParticles) THEN [em EXCEPT !.activeParticles = <<>>]
    ELSE LET id == em.activeParticles[i]
         IN  Bind(returnToPool(
                      [em EXCEPT !.deathCalls =
                           Append(@, [id |-> id, particle |-> em.particles[id]])],
                      id),
                  LAMBDA em1 : clearFrom_Notifies(em1, i + 1))

\* ParticleEmitter::clear(): every active particle through returnToPool, then
\* activeParticles.clear()
RECURSIVE clearFrom(_, _)
clearFrom(em, i) ==
    IF i > Len(em.activeParticles) THEN [em EXCEPT !.activeParticles = <<>>]
    ELSE Bind(returnToPool(em, em.activeParticles[i]),
              LAMBDA em1 : clearFrom(em1, i + 1))

EmitterClear ==
    LET em == clearFrom(Containers, 1)
    IN  /\ particles' = em.particles
        /\ activeParticles' = em.activeParticles
        /\ particlePool' = em.particlePool
        /\ UNCHANGED <<maxParticles, active, burstMode, burstCount,
                       burstInterval, burstTimer, emissionRate,
                       emissionAccumulator, lifetimeRange, gravity, behaviors,
                   blendMode, forceFields, pattern, spiralAngle,
                   onParticleSpawn>>

getParticleCount == Len(activeParticles)

(***************************************************************************)
(* Spec: one emitter, constructed, configured as the create*Effect         *)
(* functions do, then driven by the host through its public calls and the  *)
(* two switches active and burstMode.  maxParticles keeps the value the    *)
(* pool was built with: nothing in the repository assigns it.              *)
(***************************************************************************)
\* the pool, the count limit and the two schedules as ParticleEmitter() leaves
\* them
Constructed ==
    /\ particles = [i \in ParticleIds |-> NewParticle]
    /\ activeParticles = <<>>
    /\ particlePool = InitialPool
    /\ maxParticles = DefaultMaxParticles
    /\ burstTimer = 0
    /\ emissionAccumulator = 0
    /\ forceFields = <<>>
    /\ pattern = "POINT"
    /\ onParticleSpawn = "unset"
    /\ spiralAngle = 0

Init ==
    /\ Constructed
    /\ active = TRUE
    /\ burstMode = FALSE
    /\ burstCount = 2
    /\ burstInterval = 2
    /\ emissionRate = 3
    /\ lifetimeRange = <<0, 2>>
    /\ gravity = <<0, 1>>
    /\ behaviors = <<"GRAVITY">>
    /\ blendMode = "NORMAL"
    /\ harness = [phase |-> "host", dt |-> 0, n |-> 0, emitted |-> 0,
                  exhausted |-> FALSE]

\* the dt values the host passes to update() in Spec, in time units
DtValues == 0..2

Emit == \E count \in -1..MaxEmitCount : EmitterEmit(count) /\ UNCHANGED harness
Burst == EmitterBurst /\ UNCHANGED harness
Update == \E dt \in DtValues : EmitterUpdate(dt) /\ UNCHANGED harness
Clear == EmitterClear /\ UNCHANGED harness
SetActive ==
    /\ active' = ~active
    /\ UNCHANGED <<particles, activeParticles, particlePool, maxParticles,
                   burstMode, burstCount, burstInterval, burstTimer, emissionRate,
                   emissionAccumulator, lifetimeRange, gravity, behaviors,
                   blendMode, forceFields, pattern, spiralAngle,
                   onParticleSpawn, harness>>
SetBurstMode ==
    /\ burstMode' = ~burstMode
    /\ UNCHANGED <<particles, activeParticles, particlePool, maxParticles,
                   active, burstCount, burstInterval, burstTimer, emissionRate,
                   emissionAccumulator, lifetimeRange, gravity, behaviors,
                   blendMode, forceFields, pattern, spiralAngle,
                   onParticleSpawn, harness>>

Next == Emit \/ Burst \/ Update \/ Clear \/ SetActive \/ SetBurstMode

Spec == Init /\ [][Next]_vars

(***************************************************************************)
(* SpecTuned: Spec, and the host also assigns the public field             *)
(* maxParticles of the constructed emitter (runtime tuning).               *)
(***************************************************************************)
SetMaxParticles ==
    /\ \E m \in 1..(DefaultMaxParticles + 1) : m # maxParticles /\ maxParticles' = m
    /\ UNCHANGED <<particles, activeParticles, particlePool, active, burstMode,
                   burstCount, burstInterval, burstTimer, emissionRate,
                   emissionAccumulator, lifetimeRange, gravity, behaviors,
                   blendMode, forceFields, pattern, spiralAngle,
                   onParticleSpawn, harness>>

NextTuned ==
    Emit \/ Burst \/ Update \/ Clear \/ SetActive \/ SetBurstMode \/ SetMaxParticles

SpecTuned == Init /\ [][NextTuned]_vars

(***************************************************************************)
(* SpecStopped: Spec for a host that stops the emitter for good: it emits, *)
(* bursts, clears and switches active off only while the emitter is        *)
(* active, and never switches it on again.  Its frame loop keeps calling   *)
(* update with dt > 0 (ParticleTestbed::run), which is the fairness.       *)
(* On stopping, harness.n records how many particles were active.          *)
(***************************************************************************)
StoppedEmit == active /\ Emit
StoppedBurst == active /\ Burst
StoppedClear == active /\ Clear
Stop ==
    /\ active
    /\ active' = FALSE
    /\ harness' = [harness EXCEPT !.phase = "stopped",
                                  !.n = Len(activeParticles)]
    /\ UNCHANGED <<particles, activeParticles, particlePool, maxParticles,
                   burstMode, burstCount, burstInterval, burstTimer, emissionRate,
                   emissionAccumulator, lifetimeRange, gravity, behaviors,
                   blendMode, forceFields, pattern, spiralAngle,
                   onParticleSpawn>>
UpdatePositive ==
    \E dt \in DtValues \ {0} : EmitterUpdate(dt) /\ UNCHANGED harness

NextStopped ==
    StoppedEmit \/ StoppedBurst \/ StoppedClear \/ Update \/ Stop \/ SetBurstMode

SpecStopped == Init /\ [][NextStopped]_vars /\ WF_vars(UpdatePositive)

(***************************************************************************)
(* SpecRate: a constructed emitter in continuous mode, rate R, driven      *)
(* by update(dt) with one fixed dt; the driver counts the calls, the       *)
(* particles emitted, and whether an emission was cut short by the pool.   *)
(***************************************************************************)
\* number of update calls of the run
MaxRateTicks == 6
\* emission rates, in accumulator units per time unit (0 to 2.25 particles)
RateValues == 0..9
RateDtValues == 0..3

InitRate ==
    /\ Constructed
    /\ active = TRUE
    /\ burstMode = FALSE
    /\ burstCount = 2
    /\ burstInterval = 2
    /\ emissionRate \in RateValues
    /\ lifetimeRange = <<0, 2>>
    /\ gravity = <<0, 1>>
    /\ behaviors = <<"GRAVITY">>
    /\ blendMode = "NORMAL"
    /\ \E dt \in RateDtValues :
          harness = [phase |-> "rate", dt |-> dt, n |-> 0, emitted |-> 0,
                     exhausted |-> FALSE]

RateTick ==
    /\ harness.n < MaxRateTicks
    /\ EmitterUpdate(harness.dt)
    /\ LET got == NumEmitted(Containers, ScheduledCount(harness.dt))
       IN  harness' = [harness EXCEPT
                          !.n = @ + 1,
                          !.emitted = @ + got,
                          !.exhausted = @ \/ got < numToEmit(harness.dt)]

NextRate == RateTick

SpecRate == InitRate /\ [][NextRate]_vars

(***************************************************************************)
(* SpecExplosion: the explosion scenario.  A constructed emitter gets      *)
(* burstMode = true, a burstCount the pool holds twice over (200 of 5000   *)
(* in the source) and lifetimeRange = [0.5 s, 1.0 s]; active, burstInterval *)
(* (1.0 s) and burstTimer stay as constructed.  The host calls burst()     *)
(* once and then update(1/60 s) again and again.  gravity is set to zero   *)
(* here: the run's 61 steps of 8947849 time units would take position and  *)
(* velocity out of TLC's integers, and no timer, death check or pool       *)
(* operation reads them.                                                   *)
(***************************************************************************)
\* 1.0f / 60 as binary32: OneSecond / 60 rounded to the nearest time unit
SixtiethSecond == (2 * OneSecond + 60) \div 120
\* update calls of the run: 60 make the scenario's second, one more follows
ExplosionTicks == 61

InitExplosion ==
    /\ Constructed
    /\ active = TRUE
    /\ burstMode = TRUE
    /\ burstCount = DefaultMaxParticles \div 2
    /\ burstInterval = OneSecond
    /\ emissionRate = 3
    /\ lifetimeRange = <<OneSecond \div 2, OneSecond>>
    /\ gravity = Vec2Zero
    /\ behaviors = <<>>
    /\ blendMode = "NORMAL"
    /\ harness = [phase |-> "configured", dt |-> SixtiethSecond, n |-> 0,
                  emitted |-> 0, exhausted |-> FALSE]

\* the host's one call of burst()
ExplosionBurst ==
    /\ harness.phase = "configured"
    /\ EmitterBurst
    /\ harness' = [harness EXCEPT !.phase = "burst"]

\* one frame: update(1/60 s)
ExplosionTick ==
    /\ harness.phase = "burst"
    /\ harness.n < ExplosionTicks
    /\ EmitterUpdate(harness.dt)
    /\ harness' = [harness EXCEPT !.n = @ + 1]

NextExplosion == ExplosionBurst \/ ExplosionTick

SpecExplosion == InitExplosion /\ [][NextExplosion]_vars

(***************************************************************************)
(* The emitter of Spec before the host's first call.  The specifications   *)
(* that exercise one function of Particle, ForceField or Vec2 keep the     *)
(* emitter in this state; the function's argument and result are in        *)
(* harness.                                                                *)
(***************************************************************************)
EmitterAtRest ==
    /\ Constructed
    /\ active = TRUE
    /\ burstMode = FALSE
    /\ burstCount = 2
    /\ burstInterval = 2
    /\ emissionRate = 3
    /\ lifetimeRange = <<0, 2>>
    /\ gravity = <<0, 1>>
    /\ behaviors = <<"GRAVITY">>
    /\ blendMode = "NORMAL"

(***************************************************************************)
(* SpecColor: Particle::getCurrentColor on particles with a colour ramp.   *)
(* A keyframe time t (0-1 in the source) is counted in units of 1/RampOne; *)
(* colours are 4 channels of integers.  The quotient age / lifetime is     *)
(* compared with a keyframe time by cross-multiplication; with lifetime 0  *)
(* it is NaN (age 0: every comparison false) or +infinity (age > 0).       *)
(***************************************************************************)
\* longest colour ramp of the particles examined
MaxRampLen == 3

\* t >= k / RampOne and t <= k / RampOne for t = age / lifetime as binary32
RampGeq(p, k) ==
    IF p.lifetime = 0 THEN p.age > 0 ELSE p.age * RampOne >= k * p.lifetime
RampLeq(p, k) ==
    IF p.lifetime = 0 THEN FALSE ELSE p.age * RampOne <= k * p.lifetime

\* Color::lerp(a, b, num / den), channel by channel; 0 / 0 is NaN
ColorLerp(a, b, num, den) ==
    IF den = 0 THEN [c \in 1..4 |-> "NaN"]
    ELSE [c \in 1..4 |-> a[c] + ((b[c] - a[c]) * num) \div den]

\* the loop of getCurrentColor from segment i on
RECURSIVE rampSearch(_, _)
rampSearch(p, i) ==
    IF i > Len(p.colorRamp) - 1
    THEN p.colorRamp[Len(p.colorRamp)].color      \* colorRamp.back().color
    ELSE LET k0 == p.colorRamp[i]
             k1 == p.colorRamp[i + 1]
         IN  IF RampGeq(p, k0.t) /\ RampLeq(p, k1.t)
             THEN ColorLerp(k0.color, k1.color,
                            p.age * RampOne - k0.t * p.lifetime,
                            (k1.t - k0.t) * p.lifetime)
             ELSE rampSearch(p, i + 1)

\* Particle::getCurrentColor
getCurrentColor(p) ==
    IF p.colorRamp = <<>> THEN p.color ELSE rampSearch(p, 1)

\* the keyframe colours used, by position in the ramp
KeyColor(i) == <<60 * i, 255 - 60 * i, 20 * i, 255>>
\* ramps sorted by ascending t, the empty one included
ColorRamps ==
    {r \in UNION {[1..n -> 0..RampOne] : n \in 0..MaxRampLen} :
        \A i \in 1..(Len(r) - 1) : r[i] <= r[i + 1]}
ColorParticles ==
    {[age |-> a, lifetime |-> l, color |-> <<1, 2, 3, 4>>,
      colorRamp |-> [i \in 1..Len(r) |-> [t |-> r[i], color |-> KeyColor(i)]]] :
        a \in {0, 1, 2, 4, 5}, l \in {0, 2, 4}, r \in ColorRamps}

InitColor ==
    /\ EmitterAtRest
    /\ harness \in [phase : {"particle"}, p : ColorParticles, color : {<<>>}]

GetCurrentColor ==
    /\ harness.phase = "particle"
    /\ harness' = [harness EXCEPT !.phase = "color",
                                  !.color = getCurrentColor(harness.p)]
    /\ UNCHANGED emitterVars

NextColor == GetCurrentColor

SpecColor == InitColor /\ [][NextColor]_vars

(***************************************************************************)
(* SpecAlpha: Particle::getCurrentAlpha.  age, lifetime, fadeInTime and    *)
(* fadeOutTime are counted in quarter seconds; an alpha is the exact       *)
(* fraction <<numerator, denominator>> (denominator > 0), so the float     *)
(* rounding of the quotients is not part of this specification.  With      *)
(* shimmerRate > 0 the sine factor 0.5 + shimmer * 0.5 is one of           *)
(* ShimmerFactors.                                                         *)
(***************************************************************************)
RatOne == <<1, 1>>
RatMul(a, b) == <<a[1] * b[1], a[2] * b[2]>>
RatEq(a, b) == a[1] * b[2] = b[1] * a[2]
RatLess(a, b) == a[1] * b[2] < b[1] * a[2]

\* getCurrentAlpha that returns alpha without Utils::clamp
clamp01_Identity(a) == a

\* Utils::clamp(value, 0.0f, 1.0f)
clamp01(a) ==
    IF a[1] < 0 THEN <<0, 1>> ELSE IF a[1] > a[2] THEN RatOne ELSE a

ShimmerFactors == {<<1, 2>>, <<3, 4>>, RatOne}

\* Particle::getCurrentAlpha; shimmer is the value of 0.5f + shimmer * 0.5f
getCurrentAlpha(p, shimmer) ==
    LET fadeIn ==
            IF p.age < p.fadeInTime /\ p.fadeInTime > 0
            THEN <<p.age, p.fadeInTime>> ELSE RatOne
        fadeOutStart == p.lifetime - p.fadeOutTime
        fadeOut ==
            IF p.age > fadeOutStart /\ p.fadeOutTime > 0
            THEN <<p.fadeOutTime - (p.age - fadeOutStart), p.fadeOutTime>>
            ELSE RatOne
        shimmered == IF p.shimmerRate > 0 THEN shimmer ELSE RatOne
    IN  clamp01(RatMul(RatMul(fadeIn, fadeOut), shimmered))

AlphaParticles ==
    [age : 0..9, lifetime : {1, 4, 8}, fadeInTime : {0, 2, 3},
     fadeOutTime : {0, 2, 4}, shimmerRate : {0, 1}]

InitAlpha ==
    /\ EmitterAtRest
    /\ harness \in [phase : {"particle"}, p : AlphaParticles, alpha : {RatOne}]

GetCurrentAlpha ==
    /\ harness.phase = "particle"
    /\ \E shimmer \in ShimmerFactors :
          harness' = [harness EXCEPT
                         !.phase = "alpha",
                         !.alpha = getCurrentAlpha(harness.p, shimmer)]
    /\ UNCHANGED emitterVars

NextAlpha == GetCurrentAlpha

SpecAlpha == InitAlpha /\ [][NextAlpha]_vars

(***************************************************************************)
(* SpecNormalize: Vec2::normalized on vectors [x, y, e] far from 1, all of *)
(* integer length (sqrt is exact on them).                                 *)
(***************************************************************************)
\* vectors of integer length, and the exponents they are scaled by
NormMantissas ==
    {<<0, 0>>, <<1, 0>>, <<0, -1>>, <<-2, 0>>, <<3, 4>>, <<-4, 3>>, <<-3, -4>>,
     <<5, 12>>, <<12, -5>>, <<8, 15>>, <<6, 8>>, <<0, 5>>}
NormExponents == {-100, -80, -40, -10, 0, 10, 40, 62, 70}
NormVectors == {[x |-> m[1], y |-> m[2], e |-> e] :
                    m \in NormMantissas, e \in NormExponents}

InitNormalize ==
    /\ EmitterAtRest
    /\ harness \in [phase : {"vector"}, v : NormVectors, n : {RatZeroVec}]

Normalized ==
    /\ harness.phase = "vector"
    /\ harness' = [harness EXCEPT !.phase = "normalized",
                                  !.n = normalized(harness.v)]
    /\ UNCHANGED emitterVars

NextNormalize == Normalized

SpecNormalize == InitNormalize /\ [][NextNormalize]_vars

(***************************************************************************)
(* SpecField: ForceField::getForce on a grid of points.                    *)
(***************************************************************************)
ForceTypes == {"ATTRACT", "REPEL", "TURBULENCE", "VORTEX"}
\* Vec2::fromAngle(angle) for angles that are multiples of a quarter turn
UnitDirections == {<<1, 0>>, <<0, 1>>, <<-1, 0>>, <<0, -1>>}
FieldValues ==
    [position : {<<0, 0>>, <<3, 1>>}, radius : {-1, 0, 4, 8},
     strength : {-16, 32}, falloff : {2}, type : ForceTypes]
FieldPoints == (0..9) \X (0..3)

InitField ==
    /\ EmitterAtRest
    /\ harness \in [phase : {"field"}, field : FieldValues, p : FieldPoints,
                    force : {Vec2Zero}]

GetForce ==
    /\ harness.phase = "field"
    /\ \E dir \in UnitDirections :
          harness' = [harness EXCEPT
                         !.phase = "force",
                         !.force = getForce(harness.field, harness.p, dir)]
    /\ UNCHANGED emitterVars

NextField == GetForce

SpecField == InitField /\ [][NextField]_vars

(***************************************************************************)
(* SpecSwirl: Particle::update on one particle whose only behavior is      *)
(* SWIRL, for as long as it is alive.  harness.r2 is the squared distance  *)
(* from target the particle started at.                                    *)
(***************************************************************************)
SwirlParticles ==
    {[NewParticle EXCEPT !.behaviors = <<"SWIRL">>, !.position = pos,
                         !.velocity = vel, !.target = tgt, !.lifetime = life] :
        pos \in {<<1, 1>>, <<3, 0>>, <<0, 2>>},
        vel \in {Vec2Zero, <<1, 0>>, <<0, -1>>},
        tgt \in {Vec2Zero, targetPosition},
        life \in {3, 6}}

InitSwirl ==
    /\ EmitterAtRest
    /\ \E p \in SwirlParticles :
          harness = [phase |-> "swirl", p |-> p, updates |-> 0,
                     r2 |-> Vec2LengthSq(Vec2Sub(p.position, p.target))]

SwirlUpdate ==
    /\ harness.phase = "swirl"
    /\ isAlive(harness.p)
    /\ \E dt \in DtValues :
          harness' = [harness EXCEPT !.p = ParticleUpdate(harness.p, dt),
                                     !.updates = IF @ < 2 THEN @ + 1 ELSE @]
    /\ UNCHANGED emitterVars

NextSwirl == SwirlUpdate

SpecSwirl == InitSwirl /\ [][NextSwirl]_vars

(***************************************************************************)
(* SpecOwnership: two emitters side by side.  The first is the emitter of  *)
(* the state variables, in continuous mode at one particle per time unit;  *)
(* the second, kept in harness.other as a record of containers, has the    *)
(* same configuration but is stopped, so that its update() is the particle *)
(* loop alone (run with dt = 1) and the host emits on it by emit(1).  Each *)
(* constructor allocates its own particles (std::make_unique): the         *)
(* identities of the second emitter follow those of the first.             *)
(***************************************************************************)
OtherIds == {DefaultMaxParticles + i : i \in ParticleIds}
OtherConstructed ==
    [particles |-> [i \in OtherIds |-> NewParticle],
     activeParticles |-> <<>>,
     particlePool |-> [i \in ParticleIds |-> DefaultMaxParticles + i],
     deathCalls |-> <<>>, updateCalls |-> <<>>]

InitOwnership ==
    /\ Constructed
    /\ active = TRUE
    /\ burstMode = FALSE
    /\ burstCount = 2
    /\ burstInterval = 2
    /\ emissionRate = AccOne
    /\ lifetimeRange = <<2, 2>>
    /\ gravity = Vec2Zero
    /\ behaviors = <<>>
    /\ blendMode = "NORMAL"
    /\ harness = [phase |-> "two emitters", other |-> OtherConstructed]

OtherEmit ==
    /\ \E rnd \in RandomDraws(harness.other, 1) :
          harness' = [harness EXCEPT !.other = emit(@, 1, rnd)]
    /\ UNCHANGED emitterVars

OtherUpdate ==
    /\ harness' = [harness EXCEPT !.other =
                       [updateParticles(@, 1, 1) EXCEPT !.deathCalls = <<>>,
                                                       !.updateCalls = <<>>]]
    /\ UNCHANGED emitterVars

OtherClear ==
    /\ harness' = [harness EXCEPT !.other = clearFrom(@, 1)]
    /\ UNCHANGED emitterVars

NextOwnership == Emit \/ Update \/ Clear \/ OtherEmit \/ OtherUpdate \/ OtherClear

SpecOwnership == InitOwnership /\ [][NextOwnership]_vars

(***************************************************************************)
(* SpecFrame: one emitter with an attracting force field, in burst or      *)
(* continuous mode, whose host has set onParticleDeath to a callback that  *)
(* logs its calls.  For the update() last made, harness holds dt, the      *)
(* active sequence before the call (activeBefore), the active particles as *)
(* they were when the particle loop started (passStart) and the log        *)
(* (deathCalls).                                                           *)
(***************************************************************************)
FrameField == [position |-> <<3, 1>>, radius |-> 4, strength |-> 32,
               falloff |-> 2, type |-> "ATTRACT"]

HostPhase == [phase |-> "host", dt |-> 0, activeBefore |-> <<>>,
              passStart |-> [activeParticles |-> <<>>, particles |-> <<>>],
              deathCalls |-> <<>>]

InitFrame ==
    /\ particles = [i \in ParticleIds |-> NewParticle]
    /\ activeParticles = <<>>
    /\ particlePool = InitialPool
    /\ maxParticles = DefaultMaxParticles
    /\ burstTimer = 0
    /\ emissionAccumulator = 0
    /\ forceFields = <<FrameField>>
    /\ pattern = "POINT"
    /\ onParticleSpawn = "unset"
    /\ spiralAngle = 0
    /\ active = TRUE
    /\ burstMode \in BOOLEAN
    /\ burstCount = 2
    /\ burstInterval = 2
    /\ emissionRate = AccOne
    /\ lifetimeRange = <<0, 2>>
    /\ gravity = Vec2Zero
    /\ behaviors = <<>>
    /\ blendMode = "NORMAL"
    /\ harness = HostPhase

\* the active particles when the particle loop of update(dt) starts
passStart(dt, rnd) ==
    LET em == emit(Containers, ScheduledCount(dt), rnd)
    IN  [activeParticles |-> em.activeParticles,
         particles |-> [id \in Range(em.activeParticles) |-> em.particles[id]]]

FrameUpdate ==
    \E dt \in 0..1 :
        \E rnd \in RandomDraws(Containers, ScheduledCount(dt)) :
            /\ EmitterUpdateDrawn(dt, rnd)
            /\ harness' = [phase |-> "updated", dt |-> dt,
                           activeBefore |-> activeParticles,
                           passStart |-> passStart(dt, rnd),
                           deathCalls |-> updateResult(dt, rnd).deathCalls]

FrameEmit ==
    /\ EmitterEmit(1)
    /\ harness' = HostPhase

FrameClear == EmitterClear /\ harness' = HostPhase

NextFrame == FrameUpdate \/ FrameEmit \/ FrameClear

SpecFrame == InitFrame /\ [][NextFrame]_vars

(***************************************************************************)
(* SpecDraw: ParticleEmitter::draw.  The host of a stopped emitter emits,  *)
(* updates, assigns the emitter's blendMode between emissions and draws.   *)
(* harness holds the containers as they were before the last draw().       *)
(***************************************************************************)
BlendModes == <<"NORMAL", "ADD", "MULTIPLY">>
\* static_cast<int>(blendMode)
BlendOrdinal(mode) == (CHOOSE k \in 1..Len(BlendModes) : BlendModes[k] = mode) - 1
BlendLess(em, a, b) ==
    BlendOrdinal(em.particles[a].blendMode) < BlendOrdinal(em.particles[b].blendMode)

\* a sort that puts a particle in front of those that compare equal to it
RECURSIVE sortFrom_Unstable(_, _, _)
sortFrom_Unstable(em, sorted, i) ==
    IF i > Len(em.activeParticles) THEN sorted
    ELSE LET id == em.activeParticles[i]
             k == Cardinality({j \in 1..Len(sorted) : BlendLess(em, sorted[j], id)})
         IN  sortFrom_Unstable(em, SubSeq(sorted, 1, k) \o <<id>>
                                       \o SubSeq(sorted, k + 1, Len(sorted)), i + 1)

\* std::stable_sort with the comparison of draw(): each element goes behind
\* the elements already placed that do not compare greater
RECURSIVE sortFrom(_, _, _)
sortFrom(em, sorted, i) ==
    IF i > Len(em.activeParticles) THEN sorted
    ELSE LET id == em.activeParticles[i]
             k == Cardinality({j \in 1..Len(sorted) : ~BlendLess(em, id, sorted[j])})
         IN  sortFrom(em, SubSeq(sorted, 1, k) \o <<id>>
                              \o SubSeq(sorted, k + 1, Len(sorted)), i + 1)

\* ParticleEmitter::draw: the sort; drawParticle only reads the particles
EmitterDraw ==
    /\ activeParticles' = sortFrom(Containers, <<>>, 1)
    /\ UNCHANGED <<particles, particlePool, maxParticles, active, burstMode,
                   burstCount, burstInterval, burstTimer, emissionRate,
                   emissionAccumulator, lifetimeRange, gravity, behaviors,
                   blendMode, forceFields, pattern, spiralAngle,
                   onParticleSpawn>>

NotDrawn == [phase |-> "host", before |-> <<>>]

InitDraw ==
    /\ Constructed
    /\ active = FALSE
    /\ burstMode = FALSE
    /\ burstCount = 2
    /\ burstInterval = 2
    /\ emissionRate = AccOne
    /\ lifetimeRange = <<2, 2>>
    /\ gravity = Vec2Zero
    /\ behaviors = <<>>
    /\ blendMode = "ADD"
    /\ harness = NotDrawn

DrawEmit ==
    /\ \E count \in 1..MaxEmitCount : EmitterEmit(count)
    /\ harness' = NotDrawn

DrawUpdate ==
    /\ \E dt \in DtValues : EmitterUpdate(dt)
    /\ harness' = NotDrawn

SetBlendMode ==
    /\ \E k \in 1..Len(BlendModes) :
          BlendModes[k] # blendMode /\ blendMode' = BlendModes[k]
    /\ harness' = NotDrawn
    /\ UNCHANGED <<particles, activeParticles, particlePool, maxParticles,
                   active, burstMode, burstCount, burstInterval, burstTimer,
                   emissionRate, emissionAccumulator, lifetimeRange, gravity,
                   behaviors, forceFields,
                   pattern, spiralAngle,
                   onParticleSpawn>>

Draw ==
    /\ EmitterDraw
    /\ harness' = [phase |-> "drawn", before |-> Containers]

NextDraw == DrawEmit \/ DrawUpdate \/ SetBlendMode \/ Draw

SpecDraw == InitDraw /\ [][NextDraw]_vars

(***************************************************************************)
(* SpecTrail: Particle::update on one particle with a trail.  The trail is *)
(* empty when the particle is emitted; harness.history lists the positions *)
(* the particle had after each update since, oldest first.                 *)
(***************************************************************************)
MaxTrailUpdates == 4

TrailParticles ==
    {[NewParticle EXCEPT !.position = emitterPosition, !.velocity = vel,
                         !.maxTrailLength = k] :
        vel \in {<<1, 0>>, <<0, -1>>, <<2, 1>>}, k \in -1..(trailLength + 2)}

InitTrail ==
    /\ EmitterAtRest
    /\ harness \in [phase : {"trail"}, p : TrailParticles, history : {<<>>}]

TrailUpdate ==
    /\ harness.phase = "trail"
    /\ Len(harness.history) < MaxTrailUpdates
    /\ \E dt \in DtValues :
          harness' = [harness EXCEPT
                         !.p = ParticleUpdate(harness.p, dt),
                         !.history = Append(@, ParticleUpdate(harness.p, dt).position)]
    /\ UNCHANGED emitterVars

NextTrail == TrailUpdate

SpecTrail == InitTrail /\ [][NextTrail]_vars

(***************************************************************************)
(* SpecSchedule: the two emission schedules of update().  The host calls   *)
(* update, emit, burst, clear and draw and flips active and burstMode.     *)
(* harness names the call last made (op) and keeps what the host could     *)
(* read before it: burstTimer, emissionAccumulator, the flags, the number  *)
(* of active particles; for update() also dt and the number of             *)
(* onParticleDeath calls.                                                  *)
(***************************************************************************)
ScheduleDtValues == {0, 1, 2, 7}

Observed(op, dt, deaths) ==
    [op |-> op, dt |-> dt, deaths |-> deaths, timerBefore |-> burstTimer,
     accBefore |-> emissionAccumulator, activeBefore |-> active,
     burstModeBefore |-> burstMode, nBefore |-> Len(activeParticles),
     poolBefore |-> Len(particlePool)]

InitSchedule ==
    /\ Constructed
    /\ active = TRUE
    /\ burstMode \in BOOLEAN
    /\ burstCount = 1
    /\ burstInterval \in {0, 2, 3}
    /\ emissionRate = 3
    /\ lifetimeRange = <<2, 2>>
    /\ gravity = Vec2Zero
    /\ behaviors = <<>>
    /\ blendMode = "NORMAL"
    /\ harness = Observed("none", 0, 0)

ScheduleUpdate ==
    \E dt \in ScheduleDtValues :
        \E rnd \in RandomDraws(Containers, ScheduledCount(dt)) :
            /\ EmitterUpdateDrawn(dt, rnd)
            /\ harness' = Observed("update", dt,
                                   Len(updateResult(dt, rnd).deathCalls))

ScheduleEmit == EmitterEmit(1) /\ harness' = Observed("emit", 0, 0)
ScheduleBurst == EmitterBurst /\ harness' = Observed("burst", 0, 0)
ScheduleClear == EmitterClear /\ harness' = Observed("clear", 0, 0)
ScheduleDraw == EmitterDraw /\ harness' = Observed("draw", 0, 0)
ScheduleSetActive ==
    /\ active' = ~active
    /\ harness' = Observed("set", 0, 0)
    /\ UNCHANGED <<particles, activeParticles, particlePool, maxParticles,
                   burstMode, burstCount, burstInterval, burstTimer, emissionRate,
                   emissionAccumulator, lifetimeRange, gravity, behaviors,
                   blendMode, forceFields, pattern, spiralAngle,
                   onParticleSpawn>>
ScheduleSetBurstMode ==
    /\ burstMode' = ~burstMode
    /\ harness' = Observed("set", 0, 0)
    /\ UNCHANGED <<particles, activeParticles, particlePool, maxParticles,
                   active, burstCount, burstInterval, burstTimer, emissionRate,
                   emissionAccumulator, lifetimeRange, gravity, behaviors,
                   blendMode, forceFields, pattern, spiralAngle,
                   onParticleSpawn>>

NextSchedule ==
    \/ ScheduleUpdate \/ ScheduleEmit \/ ScheduleBurst \/ ScheduleClear
    \/ ScheduleDraw \/ ScheduleSetActive \/ ScheduleSetBurstMode

SpecSchedule == InitSchedule /\ [][NextSchedule]_vars

(***************************************************************************)
(* SpecSpiral: two SPIRAL emitters and the one static spiralAngle they     *)
(* share.  The first emitter is that of the state variables; the second is *)
(* harness.other, which the host also destroys and creates anew.  The host *)
(* emits and clears on both.  harness.start is the value the static had    *)
(* when the host started (0, or the value 16777213 emissions of an earlier *)
(* run of the process have left), harness.emitted counts the particles     *)
(* emitted since by either emitter, harness.count those of the last emit   *)
(* of the first emitter.                                                   *)
(***************************************************************************)
MaxSpiralEmissions == 5
\* 8388608.0f in units of 0.5: the first float whose successor is 1 away
SpiralSaturation == 16777216
SpiralStarts == {0, SpiralSaturation - 3}

NoEmitter == [exists |-> FALSE, particles |-> <<>>, activeParticles |-> <<>>,
              particlePool |-> <<>>]
OtherSpiral ==
    [exists |-> TRUE, particles |-> OtherConstructed.particles,
     activeParticles |-> <<>>, particlePool |-> OtherConstructed.particlePool]
\* the containers of the second emitter, with the static as it is now
OtherContainers ==
    [particles |-> harness.other.particles,
     activeParticles |-> harness.other.activeParticles,
     particlePool |-> harness.other.particlePool,
     deathCalls |-> <<>>, updateCalls |-> <<>>, spiralAngle |-> spiralAngle]
OtherAfter(em) ==
    [exists |-> TRUE, particles |-> em.particles,
     activeParticles |-> em.activeParticles, particlePool |-> em.particlePool]

InitSpiral ==
    /\ particles = [i \in ParticleIds |-> NewParticle]
    /\ activeParticles = <<>>
    /\ particlePool = InitialPool
    /\ maxParticles = DefaultMaxParticles
    /\ burstTimer = 0
    /\ emissionAccumulator = 0
    /\ forceFields = <<>>
    /\ pattern = "SPIRAL"
    /\ onParticleSpawn = "unset"
    /\ spiralAngle \in SpiralStarts
    /\ active = FALSE
    /\ burstMode = FALSE
    /\ burstCount = 2
    /\ burstInterval = 2
    /\ emissionRate = 3
    /\ lifetimeRange = <<2, 2>>
    /\ gravity = Vec2Zero
    /\ behaviors = <<>>
    /\ blendMode = "NORMAL"
    /\ harness = [op |-> "none", other |-> OtherSpiral, start |-> spiralAngle,
                  emitted |-> 0, count |-> 0]

SpiralEmit ==
    /\ harness.emitted < MaxSpiralEmissions
    /\ \E count \in 1..2 :
          /\ EmitterEmit(count)
          /\ harness' = [harness EXCEPT
                            !.op = "emit",
                            !.count = NumEmitted(Containers, count),
                            !.emitted = @ + NumEmitted(Containers, count)]

OtherSpiralEmit ==
    /\ harness.emitted < MaxSpiralEmissions
    /\ harness.other.exists
    /\ \E rnd \in RandomDraws(OtherContainers, 1) :
          LET em == emit(OtherContainers, 1, rnd)
          IN  /\ spiralAngle' = em.spiralAngle
              /\ harness' = [harness EXCEPT
                                !.op = "other emit",
                                !.other = OtherAfter(em),
                                !.emitted = @ + NumEmitted(OtherContainers, 1)]
    /\ UNCHANGED <<particles, activeParticles, particlePool, maxParticles,
                   active, burstMode, burstCount, burstInterval, burstTimer,
                   emissionRate, emissionAccumulator, lifetimeRange, gravity,
                   behaviors, blendMode, forceFields, pattern,
                           onParticleSpawn>>

SpiralClear == EmitterClear /\ harness' = [harness EXCEPT !.op = "clear"]

OtherSpiralClear ==
    /\ harness.other.exists
    /\ harness' = [harness EXCEPT !.op = "other clear",
                                  !.other = OtherAfter(clearFrom(OtherContainers, 1))]
    /\ UNCHANGED emitterVars

\* ~ParticleEmitter() and ParticleEmitter() of the second emitter
OtherDestroy ==
    /\ harness.other.exists
    /\ harness' = [harness EXCEPT !.op = "destroy", !.other = NoEmitter]
    /\ UNCHANGED emitterVars
OtherCreate ==
    /\ ~harness.other.exists
    /\ harness' = [harness EXCEPT !.op = "create", !.other = OtherSpiral]
    /\ UNCHANGED emitterVars

NextSpiral ==
    \/ SpiralEmit \/ OtherSpiralEmit \/ SpiralClear \/ OtherSpiralClear
    \/ OtherDestroy \/ OtherCreate

SpecSpiral == InitSpiral /\ [][NextSpiral]_vars

(***************************************************************************)
(* SpecForce: forces and integration.  The host keeps one free particle    *)
(* harness.p, applies a force to it and calls Particle::update in every    *)
(* tick; particle drag is 1 or 1/2 and all values are multiples of         *)
(* 2^|ForceTicks|, so that halving is exact as it is in binary32.  The    *)
(* host also runs an emitter with gravity: it emits and calls update(dt).  *)
(* harness keeps the particle before the tick (before), the force and dt   *)
(* of the tick, and for the emitter the call last made (op), its dt and    *)
(* the particles and the active list before it.                            *)
(***************************************************************************)
\* the free particle gets two ticks
ForceTicks == 1..2
ForceUnit == Pow2(Cardinality(ForceTicks))
Forces == {Vec2Zero, <<ForceUnit, 0 - ForceUnit>>}
ForceParticles ==
    {[NewParticle EXCEPT !.velocity = vel, !.drag = dr, !.lifetime = OneSecond] :
        vel \in {<<2 * ForceUnit, ForceUnit>>},
        dr \in {<<1, 1>>, <<1, 2>>}}

InitForce ==
    /\ Constructed
    /\ active = TRUE
    /\ burstMode = FALSE
    /\ burstCount = 1
    /\ burstInterval = 2
    /\ emissionRate = 0
    /\ lifetimeRange = <<2, 2>>
    /\ gravity = <<0, 1>>
    /\ behaviors = <<>>
    /\ blendMode = "NORMAL"
    /\ harness \in [p : ForceParticles, before : {NewParticle},
                    force : {Vec2Zero}, dt : {0}, ticks : {0}, op : {"none"},
                    emitterDt : {0}, particlesBefore : {particles},
                    activeBefore : {<<>>}]

\* p.applyForce(force); p.update(dt) on the free particle
ForceTick ==
    /\ harness.ticks + 1 \in ForceTicks
    /\ \E force \in Forces, dt \in {0, 2} :
          harness' = [harness EXCEPT
                         !.p = ParticleUpdate(applyForce(harness.p, force), dt),
                         !.before = harness.p,
                         !.force = force,
                         !.dt = dt,
                         !.ticks = @ + 1]
    /\ UNCHANGED emitterVars

ForceEmit ==
    /\ EmitterEmit(1)
    /\ harness' = [harness EXCEPT !.op = "emit"]

ForceUpdate ==
    \E dt \in 0..1 :
       /\ EmitterUpdate(dt)
       /\ harness' = [harness EXCEPT !.op = "update", !.emitterDt = dt,
                                     !.particlesBefore = particles,
                                     !.activeBefore = activeParticles]

NextForce == ForceTick \/ ForceEmit \/ ForceUpdate

SpecForce == InitForce /\ [][NextForce]_vars

(***************************************************************************)
(* SpecSpawn: the spawn callback.  The host installs, replaces and removes *)
(* onParticleSpawn and calls emit, burst, update and clear.  harness names *)
(* the call last made (op) and keeps the calls of onParticleSpawn it made  *)
(* (spawnCalls), the number of particles it created and the active list    *)
(* before it.                                                              *)
(***************************************************************************)
SpawnCallbacks == {"unset", "confetti", "override"}

Spawned(op, created, calls) ==
    [op |-> op, created |-> created, spawnCalls |-> calls,
     activeBefore |-> activeParticles]

InitSpawn ==
    /\ Constructed
    /\ active = TRUE
    /\ burstMode = FALSE
    /\ burstCount = 2
    /\ burstInterval = 2
    /\ emissionRate = 3
    /\ lifetimeRange = <<2, 2>>
    /\ gravity = Vec2Zero
    /\ behaviors = <<"GRAVITY">>
    /\ blendMode = "NORMAL"
    /\ harness = Spawned("none", 0, <<>>)

SetSpawn ==
    /\ \E cb \in SpawnCallbacks \ {onParticleSpawn} : onParticleSpawn' = cb
    /\ harness' = Spawned("set", 0, <<>>)
    /\ UNCHANGED <<particles, activeParticles, particlePool, maxParticles,
                   active, burstMode, burstCount, burstInterval, burstTimer,
                   emissionRate, emissionAccumulator, lifetimeRange, gravity,
                   behaviors, blendMode, forceFields, pattern, spiralAngle>>

SpawnEmit ==
    \E count \in 0..2 :
        \E rnd \in RandomDraws(Containers, count) :
            /\ EmitterEmitDrawn(count, rnd)
            /\ harness' = Spawned("emit", NumEmitted(Containers, count),
                                  emit(Containers, count, rnd).spawnCalls)

\* burst(): emit(burstCount)
SpawnBurst ==
    \E rnd \in RandomDraws(Containers, burstCount) :
        /\ EmitterEmitDrawn(burstCount, rnd)
        /\ harness' = Spawned("burst", NumEmitted(Containers, burstCount),
                              emit(Containers, burstCount, rnd).spawnCalls)

SpawnUpdate ==
    \E dt \in {2} :
        \E rnd \in RandomDraws(Containers, ScheduledCount(dt)) :
            /\ EmitterUpdateDrawn(dt, rnd)
            /\ harness' = Spawned("update",
                                  NumEmitted(Containers, ScheduledCount(dt)),
                                  updateResult(dt, rnd).spawnCalls)

SpawnClear == EmitterClear /\ harness' = Spawned("clear", 0, <<>>)

NextSpawn == SetSpawn \/ SpawnEmit \/ SpawnBurst \/ SpawnUpdate \/ SpawnClear

SpecSpawn == InitSpawn /\ [][NextSpawn]_vars

(***************************************************************************)
(* SpecDegenerate: lifetimes that are not positive.  lifetimeRange is      *)
(* [-1, 1], so emit() draws lifetimes -1, 0 and 1.  The host calls emit,   *)
(* update (dt = 0 included) and clear and flips active.  harness names the *)
(* call last made (op) and keeps its dt, the number of particles it        *)
(* created, and the particles and the active list before it.               *)
(***************************************************************************)
Degenerate(op, dt, created) ==
    [op |-> op, dt |-> dt, created |-> created, particlesBefore |-> particles,
     activeBefore |-> activeParticles]

InitDegenerate ==
    /\ Constructed
    /\ active = TRUE
    /\ burstMode = FALSE
    /\ burstCount = 1
    /\ burstInterval = 2
    /\ emissionRate = 3
    /\ lifetimeRange = <<-1, 1>>
    /\ gravity = Vec2Zero
    /\ behaviors = <<>>
    /\ blendMode = "NORMAL"
    /\ harness = Degenerate("none", 0, 0)

DegenerateEmit ==
    \E count \in 1..2 :
        /\ EmitterEmit(count)
        /\ harness' = Degenerate("emit", 0, NumEmitted(Containers, count))

DegenerateUpdate ==
    \E dt \in 0..1 :
        /\ EmitterUpdate(dt)
        /\ harness' = Degenerate("update", dt, 0)

DegenerateClear == EmitterClear /\ harness' = Degenerate("clear", 0, 0)

DegenerateSetActive ==
    /\ active' = ~active
    /\ harness' = Degenerate("set", 0, 0)
    /\ UNCHANGED <<particles, activeParticles, particlePool, maxParticles,
                   burstMode, burstCount, burstInterval, burstTimer, emissionRate,
                   emissionAccumulator, lifetimeRange, gravity, behaviors,
                   blendMode, forceFields, pattern, spiralAngle, onParticleSpawn>>

NextDegenerate ==
    DegenerateEmit \/ DegenerateUpdate \/ DegenerateClear \/ DegenerateSetActive

SpecDegenerate == InitDegenerate /\ [][NextDegenerate]_vars

(***************************************************************************)
(* SpecAccumulator: the continuous-emission block of update() over the     *)
(* whole range of int.  A value is [hi, lo], standing for                  *)
(* hi * WideChunk + lo units of 1/AccOne particle, 0 <= lo < WideChunk, so *)
(* that 2^31 particles and more can be written.  harness.acc is            *)
(* emissionAccumulator, harness.rate is emissionRate; the host calls       *)
(* update(dt) with small and with very large dt.  Converting a float of    *)
(* 2^31 or more to int is undefined: the outcomes are those of the         *)
(* conversion instructions, INT_MIN (x86) and INT_MAX (saturating).        *)
(***************************************************************************)
MaxAccUpdates == 3
WideChunk == Pow2(20)
WideNorm(hi, lo) == [hi |-> hi + lo \div WideChunk, lo |-> lo % WideChunk]
WideAdd(a, b) == WideNorm(a.hi + b.hi, a.lo + b.lo)
\* dt * rate for integers dt, rate with rate < 2^11
WideMul(dt, rate) == WideNorm((dt \div WideChunk) * rate, (dt % WideChunk) * rate)
WideZero == [hi |-> 0, lo |-> 0]
\* 2^31 particles: the first value static_cast<int> cannot convert
IntLimit == [hi |-> Pow2(11) * AccOne, lo |-> 0]
WideGeq(a, b) == a.hi > b.hi \/ (a.hi = b.hi /\ a.lo >= b.lo)

\* w rounded to a 24-bit significand, round to nearest, ties to even
\* (hi < 2^24; the bits dropped are low bits of lo)
WideRound(w) ==
    LET d == BitLen(w.hi) - 4
    IN  IF w.hi = 0 \/ d <= 0 THEN w
        ELSE LET q    == Pow2(d)
                 r    == w.lo % q
                 base == w.lo - r
             IN  IF 2 * r < q THEN [hi |-> w.hi, lo |-> base]
                 ELSE IF 2 * r > q \/ (base \div q) % 2 = 1
                      THEN WideNorm(w.hi, base + q)
                      ELSE [hi |-> w.hi, lo |-> base]

\* emissionAccumulator += dt * emissionRate
accumulated(acc, dt, rate) == WideRound(WideAdd(acc, WideRound(WideMul(dt, rate))))

\* the outcomes of `numToEmit = static_cast<int>(emissionAccumulator);
\* emissionAccumulator -= numToEmit` for the accumulated value sum: in range
\* the fraction is left; out of range numToEmit is INT_MIN or INT_MAX, which
\* the subtraction converts to -2^31 and 2^31
afterSubtraction(sum) ==
    IF WideGeq(sum, IntLimit)
    THEN {WideRound(WideAdd(sum, IntLimit)),
          WideRound([hi |-> sum.hi - IntLimit.hi, lo |-> sum.lo])}
    ELSE {[hi |-> 0, lo |-> sum.lo % AccOne]}

AccRates == {0, 3, 100}
AccDtValues == {0, 1, 2, 3, Pow2(24), Pow2(27) + 1}

InitAccumulator ==
    /\ EmitterAtRest
    /\ harness \in [acc : {WideZero}, rate : AccRates, dt : {0}, updates : {0},
                    sum : {WideZero}]

\* update(dt) of an active emitter in continuous mode: the accumulator part
AccumulatorUpdate ==
    /\ harness.updates < MaxAccUpdates
    /\ \E dt \in AccDtValues :
          LET sum == accumulated(harness.acc, dt, harness.rate)
          IN  \E acc \in afterSubtraction(sum) :
                  harness' = [harness EXCEPT !.acc = acc, !.dt = dt, !.sum = sum,
                                             !.updates = @ + 1]
    /\ UNCHANGED emitterVars

NextAccumulator == AccumulatorUpdate

SpecAccumulator == InitAccumulator /\ [][NextAccumulator]_vars

(***************************************************************************)
(* SpecNotify: the death and update callbacks.  The host has set           *)
(* onParticleDeath and onParticleUpdate to callbacks that log their calls, *)
(* and calls emit, update and clear.  harness names the call last made     *)
(* (op) and keeps the two logs of that call and the particles and the      *)
(* active list before it.                                                  *)
(***************************************************************************)
Notified(op, em) ==
    [op |-> op, deathCalls |-> em.deathCalls, updateCalls |-> em.updateCalls,
     particlesBefore |-> particles, activeBefore |-> activeParticles]

InitNotify ==
    /\ Constructed
    /\ active = TRUE
    /\ burstMode = FALSE
    /\ burstCount = 1
    /\ burstInterval = 2
    /\ emissionRate = 3
    /\ lifetimeRange = <<1, 2>>
    /\ gravity = Vec2Zero
    /\ behaviors = <<>>
    /\ blendMode = "NORMAL"
    /\ harness = Notified("none", Containers)

NotifyEmit ==
    \E count \in 1..2 :
        \E rnd \in RandomDraws(Containers, count) :
            /\ EmitterEmitDrawn(count, rnd)
            /\ harness' = Notified("emit", emit(Containers, count, rnd))

NotifyUpdate ==
    \E dt \in 0..1 :
        \E rnd \in RandomDraws(Containers, ScheduledCount(dt)) :
            /\ EmitterUpdateDrawn(dt, rnd)
            /\ harness' = Notified("update", updateResult(dt, rnd))

NotifyClear ==
    /\ EmitterClear
    /\ harness' = Notified("clear", clearFrom(Containers, 1))

NextNotify == NotifyEmit \/ NotifyUpdate \/ NotifyClear

SpecNotify == InitNotify /\ [][NextNotify]_vars

(***************************************************************************)
(* SpecRetire: retiring particles under a maxParticles the host changes.   *)
(* The host calls emit, update and clear and assigns maxParticles, 0       *)
(* included.  harness names the call last made (op) and keeps the pool and *)
(* the active list as they were when the call started to retire particles  *)
(* (for update: after its emission), and the particles that existed then.  *)
(***************************************************************************)
Retiring(op, em) ==
    [op |-> op, pool |-> em.particlePool, loopActive |-> em.activeParticles,
     existing |-> DOMAIN em.particles]

InitRetire ==
    /\ Constructed
    /\ active = TRUE
    /\ burstMode = FALSE
    /\ burstCount = 1
    /\ burstInterval = 2
    /\ emissionRate = AccOne
    /\ lifetimeRange = <<1, 2>>
    /\ gravity = Vec2Zero
    /\ behaviors = <<>>
    /\ blendMode = "NORMAL"
    /\ harness = Retiring("none", Containers)

RetireEmit ==
    \E count \in 1..2 :
        \E rnd \in RandomDraws(Containers, count) :
            /\ EmitterEmitDrawn(count, rnd)
            /\ harness' = Retiring("emit", emit(Containers, count, rnd))

RetireUpdate ==
    \E dt \in 0..1 :
        \E rnd \in RandomDraws(Containers, ScheduledCount(dt)) :
            /\ EmitterUpdateDrawn(dt, rnd)
            /\ harness' = Retiring("update",
                                   emit(Containers, ScheduledCount(dt), rnd))

RetireClear == EmitterClear /\ harness' = Retiring("clear", Containers)

\* emitter.maxParticles = m
RetireSetMaxParticles ==
    /\ \E m \in 0..(DefaultMaxParticles + 1) : m # maxParticles /\ maxParticles' = m
    /\ harness' = Retiring("set", Containers)
    /\ UNCHANGED <<particles, activeParticles, particlePool, active, burstMode,
                   burstCount, burstInterval, burstTimer, emissionRate,
                   emissionAccumulator, lifetimeRange, gravity, behaviors,
                   blendMode, forceFields, pattern, spiralAngle, onParticleSpawn>>

NextRetire == RetireEmit \/ RetireUpdate \/ RetireClear \/ RetireSetMaxParticles

SpecRetire == InitRetire /\ [][NextRetire]_vars

(***************************************************************************)
(* Claims                                                                  *)
(***************************************************************************)
\* a pooled particle that has been in use before (emit() gave it a color ramp)
Recycled(id) == particles[id].colorRamp # <<>>

\* C1. Pool conservation: between any two of the calls emit, burst, update and
\* clear, particlePool.size() + activeParticles.size() equals the capacity the
\* pool was built with, and every particle built is still there.
C1_PoolConservation ==
    /\ Len(particlePool) + Len(activeParticles) = Len(InitialPool)
    /\ DOMAIN particles = ParticleIds
    /\ Range(particlePool) \cup Range(activeParticles) = ParticleIds

\* C1 witness: particles are in flight while another one has already been
\* through returnToPool.
C1_Witness ==
    /\ activeParticles # <<>>
    /\ \E i \in 1..Len(particlePool) : Recycled(particlePool[i])

\* C2. Capacity bound: pool plus active never exceeds the built capacity, the
\* active count never exceeds maxParticles, and no particle exists that the
\* constructor did not build.
C2_CapacityBound ==
    /\ Len(particlePool) + Len(activeParticles) <= Len(InitialPool)
    /\ getParticleCount <= maxParticles
    /\ DOMAIN particles \subseteq ParticleIds

\* C2 witness: the emitter is full, every particle active and the pool empty.
C2_Witness ==
    /\ getParticleCount = maxParticles
    /\ particlePool = <<>>

\* C3. Pool exhaustion scenario as claimed: on a fresh emitter whose
\* maxParticles has been set to m, one emit(count) with count > m leaves
\* exactly m active particles and an empty pool.
C3_ExhaustionLeavesPoolEmpty ==
    [][\A count \in 1..MaxEmitCount :
          (activeParticles = <<>> /\ count > maxParticles /\ EmitterEmit(count))
              => (Len(activeParticles') = maxParticles /\ particlePool' = <<>>)]_vars

Min3(a, b, c) == Min(a, Min(b, c))
\* the number of particles the claim says emit(count) adds
Truncated(count) ==
    Min3(Max(count, 0), maxParticles - Len(activeParticles), Len(particlePool))

\* C4. Silent truncation: a call emit(count), from the host or from update(),
\* moves exactly min(max(count,0), maxParticles - active, pool) particles from
\* the pool to the active set; what update() asks for is the integer part of the
\* accumulator, and the accumulator keeps only the fraction: no shortfall is
\* carried to a later call.
C4_SilentTruncation ==
    /\ \A count \in (-1..MaxEmitCount) \cup {ScheduledCount(dt) : dt \in DtValues} :
          LET em == emit(Containers, count, [j \in 1..count |-> AnyDraw])
          IN  /\ Len(em.activeParticles) = Len(activeParticles) + Truncated(count)
              /\ Len(em.particlePool) = Len(particlePool) - Truncated(count)
              /\ DOMAIN em.particles = DOMAIN particles
    /\ emissionAccumulator >= 0 /\ emissionAccumulator < AccOne

\* C4 witness: the emitter is full in continuous mode with a fraction in the
\* accumulator: the emission of the update that led here, or of the next one,
\* is cut short.
C4_Witness ==
    /\ particlePool = <<>>
    /\ ~burstMode /\ active
    /\ emissionAccumulator > 0

\* C7. Lifetime monotonicity: Particle::update(dt) with dt >= 0 never lowers
\* age and leaves lifetime alone, isAlive() is exactly age < lifetime, a dead
\* particle stays dead under further updates, and across every emitter call a
\* particle that stays active keeps its lifetime and does not get younger.
C7_LifetimeMonotonic ==
    /\ [](\A id \in Range(activeParticles) : \A dt1, dt2 \in DtValues :
            LET p == particles[id]
                q == ParticleUpdate(p, dt1)
                r == ParticleUpdate(q, dt2)
            IN  /\ isAlive(p) <=> (p.age < p.lifetime)
                /\ p.age <= q.age /\ q.age <= r.age
                /\ q.lifetime = p.lifetime /\ r.lifetime = p.lifetime
                /\ ~isAlive(p) => ~isAlive(q)
                /\ ~isAlive(q) => ~isAlive(r))
    /\ [][\A id \in Range(activeParticles) \cap Range(activeParticles') :
            /\ particles'[id].age >= particles[id].age
            /\ particles'[id].lifetime = particles[id].lifetime
            /\ ~isAlive(particles[id]) => ~isAlive(particles'[id])]_vars

\* C7 witness: one active particle has aged and another one is dead but not
\* yet retired.
C7_Witness ==
    /\ \E id \in Range(activeParticles) : particles[id].age > 0
    /\ \E id \in Range(activeParticles) : ~isAlive(particles[id])

\* C8. clear() is a hard synchronous cancellation: after it no particle is
\* active, every particle that was active is in the pool, and the pool holds
\* the full built capacity.
C8_ClearReturnsAll ==
    [][EmitterClear =>
          /\ getParticleCount' = 0
          /\ Range(activeParticles) \subseteq Range(particlePool')
          /\ Len(particlePool') = Len(InitialPool)]_vars

\* C8 witness: every particle is active and one of them is in mid-life, the
\* state clear() cancels.
C8_Witness ==
    /\ Len(activeParticles) = Len(InitialPool)
    /\ \E id \in Range(activeParticles) :
          particles[id].age > 0 /\ isAlive(particles[id])

\* round(x / AccOne) for x >= 0, halves away from zero as std::round
RoundParticles(x) == (2 * x + AccOne) \div (2 * AccOne)

AgeAfterSixty == OneSecond - 160

\* C6 as claimed. Explosion burst: burst() gives burstCount active particles at
\* once, and after 60 calls of update(1/60) no particle is active.
C6_ExplosionGoneAfterOneSecond ==
    /\ (harness.phase = "burst" /\ harness.n = 0) =>
           getParticleCount = burstCount
    /\ (harness.phase = "burst" /\ harness.n = 60) => getParticleCount = 0

\* C6 amended. burst() gives burstCount active particles at once.  The 60 calls
\* of update(1/60) bring burstTimer and every age to 1 - 5 * 2^-24 s, below
\* burstInterval: no second burst has fired, and the particles still active are
\* those of the burst whose lifetime lies above that age (none, unless such a
\* lifetime was drawn).  The 61st call fires the burst timer, active being true
\* as constructed, and burstCount particles of age 1/60 s are active again.
C6_ExplosionBurst ==
    /\ (harness.phase = "burst" /\ harness.n = 0) =>
           getParticleCount = burstCount
    /\ (harness.phase = "burst" /\ harness.n = 60) =>
           /\ burstTimer = AgeAfterSixty
           /\ burstTimer < burstInterval
           /\ getParticleCount <= burstCount
           /\ \A id \in Range(activeParticles) :
                 /\ particles[id].age = AgeAfterSixty
                 /\ particles[id].lifetime > AgeAfterSixty
    /\ (harness.phase = "burst" /\ harness.n = 61) =>
           /\ burstTimer = 0
           /\ getParticleCount = burstCount
           /\ \A id \in Range(activeParticles) :
                 particles[id].age = SixtiethSecond

\* C6 witness: 60 updates after the burst a particle of the burst is still
\* active.
C6_Witness ==
    /\ harness.phase = "burst" /\ harness.n = 60
    /\ getParticleCount > 0

C10_PooledParticlesAreReset ==
    \A i \in 1..Len(particlePool) : particles[particlePool[i]] = NewParticle


\* C11 as claimed. Colour ramp endpoints: for every non-empty ramp sorted by
\* ascending t, getCurrentColor() is the first keyframe's colour at age 0 and
\* the last keyframe's colour at any age >= lifetime.
C11_ColorRampEndpoints ==
    (harness.phase = "color" /\ harness.p.colorRamp # <<>>) =>
        LET p == harness.p
        IN  /\ p.age = 0 => harness.color = p.colorRamp[1].color
            /\ p.age >= p.lifetime =>
                   harness.color = p.colorRamp[Len(p.colorRamp)].color


\* the scenario of C12: lifetime 2.0, fadeInTime 0.5, fadeOutTime 0.5
FadeScenario(p) == p.lifetime = 8 /\ p.fadeInTime = 2 /\ p.fadeOutTime = 2
FadeScenarioValues(p, alpha) ==
    FadeScenario(p) =>
        /\ p.age = 1 => RatEq(alpha, <<1, 2>>)
        /\ p.age = 4 => RatEq(alpha, RatOne)
        /\ p.age = 7 => RatEq(alpha, <<1, 2>>)
\* the two fractions the claim names, clamped
FadeInFraction(p) == clamp01(<<p.age, p.fadeInTime>>)
FadeOutFraction(p) == clamp01(<<p.lifetime - p.age, p.fadeOutTime>>)

\* C12 as claimed. Fade timing, shimmer off: alpha is age / fadeInTime while
\* age < fadeInTime, 1 from fadeInTime to lifetime - fadeOutTime, and
\* (lifetime - age) / fadeOutTime after that (where fadeOutTime > 0), clamped
\* to [0,1]; the scenario gives 0.5, 1.0 and 0.5.
C12_FadeTiming ==
    (harness.phase = "alpha" /\ harness.p.shimmerRate = 0) =>
        LET p == harness.p
            alpha == harness.alpha
        IN  /\ p.age < p.fadeInTime => RatEq(alpha, FadeInFraction(p))
            /\ (p.fadeInTime <= p.age /\ p.age <= p.lifetime - p.fadeOutTime) =>
                   RatEq(alpha, RatOne)
            /\ (p.age > p.lifetime - p.fadeOutTime /\ p.fadeOutTime > 0) =>
                   RatEq(alpha, FadeOutFraction(p))
            /\ FadeScenarioValues(p, alpha)

\* C12 amended. Fade timing, shimmer off: alpha is the product of the fade-in
\* factor (age / fadeInTime while age < fadeInTime, else 1) and the fade-out
\* factor ((lifetime - age) / fadeOutTime once age > lifetime - fadeOutTime
\* and fadeOutTime > 0, else 1), clamped to [0,1].  So it is the claimed
\* piecewise value wherever at most one fade applies, and the product where
\* the fades overlap; the scenario gives 0.5, 1.0 and 0.5.  With shimmer on
\* alpha is still within [0,1].
C12_FadeProduct ==
    harness.phase = "alpha" =>
        LET p == harness.p
            alpha == harness.alpha
            inFadeIn == p.age < p.fadeInTime
            inFadeOut == p.age > p.lifetime - p.fadeOutTime /\ p.fadeOutTime > 0
        IN  /\ ~RatLess(alpha, <<0, 1>>) /\ ~RatLess(RatOne, alpha)
            /\ p.shimmerRate = 0 =>
                  /\ (inFadeIn /\ ~inFadeOut) => RatEq(alpha, FadeInFraction(p))
                  /\ (~inFadeIn /\ ~inFadeOut) => RatEq(alpha, RatOne)
                  /\ (~inFadeIn /\ inFadeOut) => RatEq(alpha, FadeOutFraction(p))
                  /\ (inFadeIn /\ inFadeOut) =>
                        RatEq(alpha, clamp01(<<p.age * (p.lifetime - p.age),
                                               p.fadeInTime * p.fadeOutTime>>))
                  /\ FadeScenarioValues(p, alpha)

\* C12 witness: both fades apply to a living particle and alpha is their
\* product, strictly between 0 and both single factors.
C12_Witness ==
    /\ harness.phase = "alpha" /\ harness.p.shimmerRate = 0
    /\ harness.p.age < harness.p.fadeInTime
    /\ harness.p.age > harness.p.lifetime - harness.p.fadeOutTime
    /\ harness.p.age < harness.p.lifetime
    /\ RatLess(<<0, 1>>, harness.alpha)
    /\ RatLess(harness.alpha, FadeInFraction(harness.p))
    /\ RatLess(harness.alpha, FadeOutFraction(harness.p))


\* n is a pair of numbers (no NaN), of length 1, pointing the way v does
IsNumberVec(n) == n[1][2] > 0 /\ n[2][2] > 0
IsUnitAlong(v, n) ==
    /\ IsNumberVec(n)
    /\ n[1][1] * n[1][1] * n[2][2] * n[2][2]
         + n[2][1] * n[2][1] * n[1][2] * n[1][2]
         = n[1][2] * n[1][2] * n[2][2] * n[2][2]
    /\ v.x * n[2][1] * n[1][2] = v.y * n[1][1] * n[2][2]
    /\ v.x * n[1][1] + v.y * n[2][1] > 0
IsZeroVec(n) == IsNumberVec(n) /\ n[1][1] = 0 /\ n[2][1] = 0
\* the exponent of the leading bit of x * x + y * y for v # 0
SquaredLengthTop(v) == BitLen(v.x * v.x + v.y * v.y) - 1 + 2 * v.e

\* C14 as claimed. Normalize safety: Vec2(0,0).normalized() is Vec2(0,0), never
\* NaN, and for every non-zero vector normalized() has the same direction and
\* length 1.
C14_NormalizeSafety ==
    harness.phase = "normalized" =>
        IF harness.v.x = 0 /\ harness.v.y = 0
        THEN IsZeroVec(harness.n)
        ELSE IsUnitAlong(harness.v, harness.n)

\* C14 amended. Vec2(0,0).normalized() is Vec2(0,0), never NaN.  A non-zero
\* finite vector whose squared length x*x + y*y is a normal binary32 number
\* gets the same direction and length 1; one whose squared length underflows
\* to 0 or overflows to infinity gets Vec2(0,0).
C14_NormalizeInRange ==
    harness.phase = "normalized" =>
        LET v == harness.v
            n == harness.n
        IN  /\ IsNumberVec(n)
            /\ (v.x = 0 /\ v.y = 0) => IsZeroVec(n)
            /\ (v.x # 0 \/ v.y # 0) =>
                  /\ (-126 <= SquaredLengthTop(v) /\ SquaredLengthTop(v) < 128)
                         => IsUnitAlong(v, n)
                  /\ SquaredLengthTop(v) < -150 => IsZeroVec(n)
                  /\ SquaredLengthTop(v) >= 128 => IsZeroVec(n)

\* C14 witness: a vector with two non-zero components, scaled by 2^40,
\* normalized to a unit vector with two non-zero components.
C14_Witness ==
    /\ harness.phase = "normalized"
    /\ harness.v.e = 40 /\ harness.v.x # 0 /\ harness.v.y # 0
    /\ harness.n[1][1] # 0 /\ harness.n[2][1] # 0
    /\ IsUnitAlong(harness.v, harness.n)


\* C13. Force-field boundary: for every field kind getForce(p) is the zero
\* vector whenever |p - position| > radius, and whenever p = position or the
\* distance is below 0.001 (Epsilon).
C13_ForceFieldBoundary ==
    harness.phase = "force" =>
        LET dsq == Vec2LengthSq(Vec2Sub(harness.p, harness.field.position))
            r == harness.field.radius
        IN  /\ (r < 0 \/ dsq > r * r) => harness.force = Vec2Zero
            /\ harness.p = harness.field.position => harness.force = Vec2Zero
            /\ dsq < Epsilon * Epsilon => harness.force = Vec2Zero

\* C13 witness: a vortex of radius 4 asked about a point just outside it,
\* distance sqrt(17), returned zero.
C13_Witness ==
    /\ harness.phase = "force"
    /\ harness.field.type = "VORTEX" /\ harness.field.radius = 4
    /\ Vec2LengthSq(Vec2Sub(harness.p, harness.field.position)) = 17
    /\ harness.force = Vec2Zero


\* C15 as claimed. Swirl kinematics: a particle whose only behavior is SWIRL
\* and that is at distance r from target is still at distance r after every
\* one of any number of successive update(dt) calls during its lifetime.
C15_SwirlKeepsRadius ==
    harness.phase = "swirl" =>
        Vec2LengthSq(Vec2Sub(harness.p.position, harness.p.target)) = harness.r2


NoDuplicates(seq) ==
    \A i, j \in 1..Len(seq) : i # j => seq[i] # seq[j]
\* every particle of em that exists is in exactly one of em's two containers,
\* once
ExclusivelyHeld(em) ==
    /\ NoDuplicates(em.particlePool)
    /\ NoDuplicates(em.activeParticles)
    /\ Range(em.particlePool) \cap Range(em.activeParticles) = {}
    /\ Range(em.particlePool) \cup Range(em.activeParticles) = DOMAIN em.particles

\* C16. Exclusive ownership: in every reachable state each particle is held by
\* exactly one container of exactly one emitter: never in both particlePool and
\* activeParticles, never twice in either, and never in the containers of two
\* different emitters.
C16_ExclusiveOwnership ==
    /\ ExclusivelyHeld(Containers)
    /\ ExclusivelyHeld(harness.other)
    /\ (DOMAIN particles) \cap (DOMAIN harness.other.particles) = {}

\* C16 witness: both emitters hold an active and a pooled particle, and the
\* active ones have been updated.
C16_Witness ==
    /\ Len(activeParticles) = 1 /\ Len(particlePool) = DefaultMaxParticles - 1
    /\ Len(harness.other.activeParticles) = 1
    /\ Len(harness.other.particlePool) = DefaultMaxParticles - 1
    /\ particles[activeParticles[1]].age > 0
    /\ harness.other.particles[harness.other.activeParticles[1]].age > 0


\* the particle Particle::update and the emitter's forces make of b
Processed(b, dt) ==
    ParticleUpdate(applyGlobalForces(applyForceFields(b, 1)), dt)
CallsFor(id) ==
    {k \in 1..Len(harness.deathCalls) : harness.deathCalls[k].id = id}

\* C17. Retirement in the same update: when update(dt) returns, no particle in
\* activeParticles has age >= lifetime; for each particle that became dead in
\* that call onParticleDeath was invoked exactly once, before the particle's
\* state was reset, and the particle was then moved to the pool.
C17_RetiredInSameUpdate ==
    harness.phase = "updated" =>
        LET start == harness.passStart
            dead == {id \in Range(start.activeParticles) :
                        F32Add(start.particles[id].age, harness.dt)
                            >= start.particles[id].lifetime}
        IN  /\ \A id \in Range(activeParticles) :
                  particles[id].age < particles[id].lifetime
            /\ \A k \in 1..Len(harness.deathCalls) :
                  harness.deathCalls[k].id \in dead
            /\ \A id \in dead :
                  /\ id \in Range(particlePool)
                  /\ id \notin Range(activeParticles)
                  /\ Cardinality(CallsFor(id)) = 1
                  /\ \A k \in CallsFor(id) :
                        LET seen == harness.deathCalls[k].particle
                        IN  /\ seen.age = F32Add(start.particles[id].age, harness.dt)
                            /\ seen.lifetime = start.particles[id].lifetime
                            /\ seen.behaviors = start.particles[id].behaviors
                            /\ particles[id] = ParticleReset(seen)

\* C17 witness: an update retired two particles at once, both reported to the
\* callback with their age and now in the pool.
C17_Witness ==
    /\ harness.phase = "updated"
    /\ Len(harness.deathCalls) = 2
    /\ harness.deathCalls[1].id # harness.deathCalls[2].id
    /\ harness.deathCalls[1].particle.age > 0
    /\ Len(harness.activeBefore) = 2
    /\ Range(harness.activeBefore) \subseteq Range(particlePool)


\* the particles the update() last made emitted
EmittedByUpdate ==
    Range(harness.passStart.activeParticles) \ Range(harness.activeBefore)

\* C18. New particles move in their spawn frame: within one update(dt) call
\* emission happens before the physics pass, so every particle emitted by that
\* call (by the burst timer or by continuous emission) also receives
\* Particle::update(dt) in the same call and ends it with age = dt, or is
\* already retired if dt >= lifetime.
C18_SpawnFrameUpdate ==
    harness.phase = "updated" =>
        \A id \in EmittedByUpdate :
            LET born == harness.passStart.particles[id]
            IN  IF harness.dt >= born.lifetime
                THEN /\ id \in Range(particlePool)
                     /\ id \notin Range(activeParticles)
                     /\ \E k \in CallsFor(id) :
                           harness.deathCalls[k].particle.age = harness.dt
                ELSE /\ id \in Range(activeParticles)
                     /\ particles[id].age = harness.dt
                     /\ particles[id] = Processed(born, harness.dt)

\* C18 witness: a burst fired by the timer emitted two particles in an update
\* with dt = 1; one lives on with age 1 and has moved, the other, of lifetime
\* 1, is already retired.
C18_Witness ==
    /\ harness.phase = "updated" /\ burstMode /\ harness.dt = 1
    /\ Cardinality(EmittedByUpdate) = 2
    /\ \E id \in EmittedByUpdate :
          /\ id \in Range(activeParticles)
          /\ particles[id].age = 1
          /\ particles[id].position # emitterPosition
    /\ \E id \in EmittedByUpdate :
          /\ id \in Range(particlePool)
          /\ harness.passStart.particles[id].lifetime = 1

\* the particles of the loop's start that Particle::update leaves alive / dead
AliveAfter(id) ==
    isAlive(Processed(harness.passStart.particles[id], harness.dt))
DeadAfter(id) == ~AliveAfter(id)

\* C19. Removal does not disturb iteration: in one update(dt) call every
\* particle that is in activeParticles when the physics pass starts is
\* processed exactly once (force fields, then integration, its age grown by
\* dt), whichever particles are erased during the pass; none is skipped or
\* processed twice because a neighbour died, and the death checks happen in
\* the order of the pass.
C19_EachProcessedOnce ==
    harness.phase = "updated" =>
        LET start == harness.passStart
        IN  /\ activeParticles = SelectSeq(start.activeParticles, AliveAfter)
            /\ [k \in 1..Len(harness.deathCalls) |-> harness.deathCalls[k].id]
                   = SelectSeq(start.activeParticles, DeadAfter)
            /\ \A id \in Range(start.activeParticles) :
                  IF AliveAfter(id)
                  THEN /\ particles[id] = Processed(start.particles[id], harness.dt)
                       /\ particles[id].age
                              = F32Add(start.particles[id].age, harness.dt)
                  ELSE \A k \in CallsFor(id) :
                          harness.deathCalls[k].particle
                              = Processed(start.particles[id], harness.dt)

\* C19 witness: the pass started with two particles; the first died and was
\* erased, the second was still processed: it is one time unit older and the
\* force field has accelerated it.
C19_Witness ==
    /\ harness.phase = "updated" /\ harness.dt = 1
    /\ Len(harness.passStart.activeParticles) = 2
    /\ Len(harness.deathCalls) = 1
    /\ harness.deathCalls[1].id = harness.passStart.activeParticles[1]
    /\ activeParticles = <<harness.passStart.activeParticles[2]>>
    /\ LET id == activeParticles[1]
       IN  /\ particles[id].age = harness.passStart.particles[id].age + 1
           /\ particles[id].velocity[1]
                  > harness.passStart.particles[id].velocity[1]


IndexOf(seq, x) == CHOOSE i \in 1..Len(seq) : seq[i] = x

\* C20. draw() orders particles by blend mode stably: after draw(),
\* activeParticles is sorted by non-decreasing blendMode ordinal and any two
\* particles with the same blendMode keep the relative order they had before
\* the call; draw() only permutes the active sequence: it adds or removes no
\* particle, leaves the pool unchanged and changes no particle's age.
C20_DrawStableSort ==
    harness.phase = "drawn" =>
        LET before == harness.before.activeParticles
        IN  /\ \A i, j \in 1..Len(activeParticles) :
                  i < j => ~BlendLess(Containers, activeParticles[j],
                                      activeParticles[i])
            /\ Len(activeParticles) = Len(before)
            /\ Range(activeParticles) = Range(before)
            /\ \A i, j \in 1..Len(before) :
                  (/\ i < j
                   /\ particles[before[i]].blendMode = particles[before[j]].blendMode)
                      => IndexOf(activeParticles, before[i])
                             < IndexOf(activeParticles, before[j])
            /\ particlePool = harness.before.particlePool
            /\ particles = harness.before.particles

\* C20 witness: draw() swapped an ADD particle in front of a NORMAL one that
\* had already aged.
C20_Witness ==
    /\ harness.phase = "drawn"
    /\ Len(harness.before.activeParticles) = 2
    /\ activeParticles = <<harness.before.activeParticles[2],
                           harness.before.activeParticles[1]>>
    /\ particles[activeParticles[1]].blendMode = "NORMAL"
    /\ particles[activeParticles[2]].blendMode = "ADD"
    /\ particles[activeParticles[2]].age > 0


\* the last n elements of seq
LastOf(seq, n) == SubSeq(seq, Len(seq) - n + 1, Len(seq))
TrailHoldsLastPositions ==
    /\ harness.p.maxTrailLength > 0 =>
          harness.p.trail = LastOf(harness.history,
                                   Min(harness.p.maxTrailLength,
                                       Len(harness.history)))
    /\ harness.p.maxTrailLength <= 0 => harness.p.trail = <<>>

\* C21 as claimed. Trail is a bounded FIFO: after every Particle::update,
\* trail.size() <= maxTrailLength; when maxTrailLength = k > 0 the trail holds
\* exactly the positions after the last min(k, number of updates) updates,
\* oldest first; when maxTrailLength <= 0 the trail stays empty.
C21_TrailBoundedFifo ==
    (harness.phase = "trail" /\ harness.history # <<>>) =>
        /\ Len(harness.p.trail) <= harness.p.maxTrailLength
        /\ TrailHoldsLastPositions

\* C21 amended. After every Particle::update, trail.size() <=
\* max(maxTrailLength, 0); when maxTrailLength = k > 0 the trail holds exactly
\* the positions after the last min(k, number of updates) updates, oldest
\* first; when maxTrailLength <= 0 (negative values included) the trail stays
\* empty.
C21_TrailBoundedByClampedLength ==
    (harness.phase = "trail" /\ harness.history # <<>>) =>
        /\ Len(harness.p.trail) <= Max(harness.p.maxTrailLength, 0)
        /\ TrailHoldsLastPositions

\* C21 witness: a trail of length 2 after three updates that moved the
\* particle holds the last two positions; the first has been popped.
C21_Witness ==
    /\ harness.phase = "trail"
    /\ harness.p.maxTrailLength = 2
    /\ Len(harness.history) = 3
    /\ harness.history[1] # harness.history[2]
    /\ harness.history[2] # harness.history[3]
    /\ harness.p.trail = <<harness.history[2], harness.history[3]>>


\* the particles the update() last made put into activeParticles
EmittedInUpdate == Len(activeParticles) + harness.deaths - harness.nBefore

\* C22. Burst scheduling: in burst mode with active = true, update(dt) adds dt
\* to burstTimer and, exactly when the new burstTimer >= burstInterval, sets
\* burstTimer to 0 and calls burst() (emit(burstCount)); at most one burst
\* fires per update call whatever the size of dt, and burstTimer <
\* burstInterval holds after every update (for burstInterval > 0).
C22_BurstScheduling ==
    (harness.op = "update" /\ harness.burstModeBefore /\ harness.activeBefore) =>
        LET sum == F32Add(harness.timerBefore, harness.dt)
        IN  /\ sum >= burstInterval =>
                  /\ burstTimer = 0
                  /\ EmittedInUpdate = Min(burstCount, harness.poolBefore)
            /\ sum < burstInterval =>
                  /\ burstTimer = sum
                  /\ EmittedInUpdate = 0
            /\ burstInterval > 0 => burstTimer < burstInterval

\* C22 witness: an update whose dt spans three intervals fired one burst of
\* one particle although the pool held two, and reset the timer.
C22_Witness ==
    /\ harness.op = "update" /\ harness.burstModeBefore /\ harness.activeBefore
    /\ harness.dt = 7 /\ burstInterval = 2
    /\ harness.poolBefore = DefaultMaxParticles
    /\ EmittedInUpdate = 1
    /\ burstTimer = 0


\* the particle the first emitter emitted last sits where angle puts it
LastEmittedAt(angle) ==
    (harness.op = "emit" /\ harness.count > 0) =>
        particles[activeParticles[Len(activeParticles)]].position
            = Vec2Add(emitterPosition, SpiralOffset(angle))

C23_SpiralSharedSaturating ==
    /\ spiralAngle = Min(harness.start + harness.emitted, SpiralSaturation)
    /\ LastEmittedAt(Min(harness.start + harness.emitted, SpiralSaturation))

\* C23 witness: from angle 0 the second emitter emitted two particles, was
\* cleared, destroyed and created again, and then the first emitter emitted
\* its first particle: at the third angle of the spiral.
C23_Witness ==
    /\ harness.op = "emit" /\ harness.start = 0 /\ harness.emitted = 3
    /\ harness.count = 1 /\ Len(activeParticles) = 1
    /\ harness.other.exists /\ harness.other.activeParticles = <<>>
    /\ spiralAngle = 3
    /\ particles[activeParticles[1]].position
           = Vec2Add(emitterPosition, SpiralOffset(3))
    /\ SpiralOffset(3) # SpiralOffset(1)


\* the tick of the free particle: velocity and position as the integration
\* order gives them from the state before the tick and the force of the tick
IntegratedInOrder ==
    /\ Vec2Scale(harness.p.velocity, harness.p.drag[2])
           = Vec2Scale(Vec2Add(harness.before.velocity,
                               Vec2Scale(harness.force, harness.dt)),
                       harness.p.drag[1])
    /\ harness.p.position
           = Vec2Add(harness.before.position,
                     Vec2Scale(harness.p.velocity, harness.dt))

\* the emitter's update: every particle still active has gained gravity * dt
\* of this update and nothing of earlier ones
GravityOfThisUpdateOnly ==
    \A i \in 1..Len(activeParticles) :
        LET id == activeParticles[i]
        IN  id \in Range(harness.activeBefore) =>
                particles[id].velocity
                    = Vec2Add(harness.particlesBefore[id].velocity,
                              Vec2Scale(gravity, harness.emitterDt))

\* C24. Forces do not carry over between ticks: Particle::update integrates
\* velocity += acceleration*dt, velocity *= drag, position += velocity*dt and
\* then clears acceleration, so after every Particle::update, and for every
\* active particle after every emitter update, acceleration is zero, and a
\* force applied in one tick affects the velocity of that tick only.
C24_ForcesDoNotCarryOver ==
    /\ harness.p.acceleration = Vec2Zero
    /\ harness.ticks > 0 => IntegratedInOrder
    /\ \A i \in 1..Len(activeParticles) :
          particles[activeParticles[i]].acceleration = Vec2Zero
    /\ harness.op = "update" => GravityOfThisUpdateOnly

\* C24 witness: the free particle with drag 1/2 has had a tick with a force
\* and then one without, in which its velocity only halved; the emitter has
\* updated a particle once, under gravity.
C24_Witness ==
    /\ harness.ticks = 2 /\ harness.p.drag = <<1, 2>>
    /\ harness.force = Vec2Zero /\ harness.dt = 2
    /\ Vec2Scale(harness.before.velocity, 2) = <<4 * ForceUnit, 0 - ForceUnit>>
    /\ Vec2Scale(harness.p.velocity, 4) = <<4 * ForceUnit, 0 - ForceUnit>>
    /\ harness.op = "update" /\ harness.emitterDt = 1
    /\ Len(activeParticles) = 1 /\ harness.activeBefore = activeParticles
    /\ particles[activeParticles[1]].velocity = <<1, 1>>


\* p has every field emit() assigns from the emitter configuration
InitialisedFromEmitter(p) ==
    /\ p.position = emitterPosition /\ p.velocity \in EmissionVelocities
    /\ p.lifetime \in Lifetimes /\ p.drag = drag
    /\ p.colorRamp = colorRamp /\ p.blendMode = blendMode
    /\ p.maxTrailLength = (IF enableTrails THEN trailLength ELSE 0)
    /\ p.behaviors = behaviors /\ p.target = targetPosition
    /\ p.age = 0 /\ p.acceleration = Vec2Zero /\ p.trail = <<>>

\* the particles the call last made has appended to activeParticles
CreatedByCall ==
    SubSeq(activeParticles, Len(harness.activeBefore) + 1, Len(activeParticles))

\* C25. Spawn callback protocol: for each particle emit() creates,
\* onParticleSpawn (if set) is invoked exactly once, after all fields have been
\* initialised from the emitter configuration and before the particle is put
\* into activeParticles; whatever the callback writes is what the particle has
\* in the active set, emit() overwrites none of it afterwards.
C25_SpawnCallbackProtocol ==
    LET calls == harness.spawnCalls
    IN  /\ Len(calls) = (IF onParticleSpawn = "unset" THEN 0 ELSE harness.created)
        /\ \A i \in 1..Len(calls) :
              /\ InitialisedFromEmitter(calls[i].particle)
              /\ calls[i].id \notin Range(calls[i].active)
              /\ \A j \in 1..Len(calls) : calls[j].id = calls[i].id => j = i
        /\ harness.op \in {"emit", "burst"} =>
              /\ harness.activeBefore
                     = SubSeq(activeParticles, 1, Len(harness.activeBefore))
              /\ Len(CreatedByCall) = harness.created
              /\ calls # <<>> => [i \in 1..Len(calls) |-> calls[i].id] = CreatedByCall
              /\ \A i \in 1..Len(calls) :
                    particles[calls[i].id] = SpawnCallback(calls[i].particle)

\* C25 witness: emit(2) with a callback that writes colorRamp and lifetime has
\* created two particles; the callback saw each with the emitter's ramp and a
\* lifetime of the emitter's range, and both are active with what it wrote.
C25_Witness ==
    /\ harness.op = "emit" /\ onParticleSpawn = "override"
    /\ harness.created = 2 /\ Len(harness.spawnCalls) = 2
    /\ harness.spawnCalls[2].particle.lifetime = 2
    /\ harness.spawnCalls[2].particle.colorRamp = colorRamp
    /\ particles[activeParticles[2]].lifetime = 3
    /\ particles[activeParticles[2]].colorRamp = ConfettiRamp


\* C26. Degenerate lifetime: a particle emitted with lifetime <= 0 is dead
\* from the start (isAlive() is false at age 0), raises no error, and is
\* retired to the pool by the first update(dt) after its emission for every
\* dt >= 0 (dt = 0 included); until that update it is counted by
\* getParticleCount().
C26_DegenerateLifetime ==
    /\ \A i \in 1..Len(activeParticles) :
          LET p == particles[activeParticles[i]]
          IN  p.lifetime <= 0 => (p.age = 0 /\ ~isAlive(p))
    /\ harness.op = "emit" =>
          /\ getParticleCount = Len(harness.activeBefore) + harness.created
          /\ \A id \in Range(harness.activeBefore) : id \in Range(activeParticles)
    /\ harness.op = "update" =>
          /\ \A i \in 1..Len(activeParticles) :
                particles[activeParticles[i]].lifetime > 0
          /\ \A id \in Range(harness.activeBefore) :
                harness.particlesBefore[id].lifetime <= 0 =>
                    (id \notin Range(activeParticles) /\ id \in Range(particlePool))

\* C26 witness: update(0) has retired a particle of lifetime 0 to the pool and
\* kept one of lifetime 1.
C26_Witness ==
    /\ harness.op = "update" /\ harness.dt = 0
    /\ Len(harness.activeBefore) = 2 /\ Len(activeParticles) = 1
    /\ \E id \in Range(harness.activeBefore) :
          /\ harness.particlesBefore[id].lifetime = 0
          /\ harness.particlesBefore[id].age = 0
          /\ id \in Range(particlePool)
    /\ particles[activeParticles[1]].lifetime = 1


\* C27. Accumulator range: starting from emissionAccumulator = 0, with
\* emissionRate >= 0 and every dt >= 0, after every update(dt) call
\* 0 <= emissionAccumulator < 1 holds.
C27_AccumulatorRange ==
    harness.acc.hi = 0 /\ 0 <= harness.acc.lo /\ harness.acc.lo < AccOne

\* C27, what the code does: the range holds after every update whose
\* accumulated value is below 2^31, from an accumulator in range.
C27_AccumulatorRangeWithinInt ==
    (harness.updates > 0 /\ ~WideGeq(harness.sum, IntLimit)) =>
        C27_AccumulatorRange

\* an update with a conversion in range that emitted and left a fraction
C27_Witness ==
    /\ harness.updates = 2 /\ harness.rate = 3 /\ harness.dt = 3
    /\ harness.sum = [hi |-> 0, lo |-> 10] /\ harness.acc = [hi |-> 0, lo |-> 2]


\* neither schedule has moved in the call last made
SchedulesUntouched ==
    burstTimer = harness.timerBefore /\ emissionAccumulator = harness.accBefore

\* C28. The two emission schedules are mutually exclusive and gated by
\* active: update(dt) in burst mode leaves emissionAccumulator unchanged,
\* update(dt) in continuous mode leaves burstTimer unchanged, update(dt) with
\* active = false leaves both unchanged; emit(), burst(), clear() and draw()
\* change neither.
C28_SchedulesExclusiveAndGated ==
    /\ harness.op = "update" =>
          /\ harness.burstModeBefore => emissionAccumulator = harness.accBefore
          /\ ~harness.burstModeBefore => burstTimer = harness.timerBefore
          /\ ~harness.activeBefore => SchedulesUntouched
    /\ harness.op \in {"emit", "burst", "clear", "draw"} => SchedulesUntouched

\* C28 witness: with a fraction in the accumulator and the timer running, an
\* update(dt > 0) in continuous mode has moved the accumulator and left the
\* timer where the burst mode had brought it.
C28_Witness ==
    /\ harness.op = "update" /\ harness.dt > 0
    /\ harness.activeBefore /\ ~harness.burstModeBefore
    /\ harness.timerBefore > 0 /\ burstTimer = harness.timerBefore
    /\ harness.accBefore > 0 /\ emissionAccumulator # harness.accBefore


\* C29. clear() bypasses the death callback: clear() never invokes
\* onParticleDeath (nor onParticleUpdate) for the particles it returns to the
\* pool, so onParticleDeath is invoked only from update() and only for
\* particles whose age reached their lifetime; a particle removed by clear()
\* gets no death notification at all.
C29_ClearBypassesDeathCallback ==
    /\ harness.op = "clear" =>
          /\ harness.deathCalls = <<>> /\ harness.updateCalls = <<>>
          /\ activeParticles = <<>>
          /\ \A id \in Range(harness.activeBefore) : id \in Range(particlePool)
    /\ harness.op # "update" => harness.deathCalls = <<>>
    /\ \A k \in 1..Len(harness.deathCalls) :
          LET seen == harness.deathCalls[k].particle
          IN  seen.age >= seen.lifetime

\* C29 witness: clear() has returned two living particles, one of them aged,
\* to the pool without a call of either callback.
C29_Witness ==
    /\ harness.op = "clear" /\ Len(harness.activeBefore) = 2
    /\ \A id \in Range(harness.activeBefore) :
          /\ harness.particlesBefore[id].age < harness.particlesBefore[id].lifetime
          /\ id \in Range(particlePool)
    /\ \E id \in Range(harness.activeBefore) : harness.particlesBefore[id].age > 0
    /\ harness.deathCalls = <<>> /\ harness.updateCalls = <<>>


\* the particles the call last made has retired
RetiredByCall == Range(harness.loopActive) \ Range(activeParticles)

\* C30. Return to pool is conditional on the current maxParticles:
\* returnToPool puts a particle back only if particlePool.size() < maxParticles
\* at that moment and otherwise destroys it; the pool is sized once, at
\* construction; if maxParticles is lowered afterwards below the pool size,
\* every particle that dies or is cleared is discarded and
\* particlePool.size() + activeParticles.size() decreases by one per retired
\* particle.
C30_ReturnConditionalOnMaxParticles ==
    /\ Cardinality(DOMAIN particles) <= DefaultMaxParticles
    /\ harness.op \in {"emit", "set"} => DOMAIN particles = harness.existing
    /\ harness.op \in {"update", "clear"} =>
          /\ Len(particlePool)
                 = (IF Len(harness.pool) >= maxParticles THEN Len(harness.pool)
                    ELSE Min(maxParticles,
                             Len(harness.pool) + Cardinality(RetiredByCall)))
          /\ \A id \in RetiredByCall :
                id \in DOMAIN particles <=> id \in Range(particlePool)
          /\ maxParticles < Len(harness.pool) =>
                /\ particlePool = harness.pool
                /\ \A id \in RetiredByCall : id \notin DOMAIN particles
                /\ Len(particlePool) + Len(activeParticles)
                       = Len(harness.pool) + Len(harness.loopActive)
                             - Cardinality(RetiredByCall)

\* C30 witness: with maxParticles lowered to 0 below a pool of one particle,
\* clear() has discarded the active particle: it no longer exists, the pool
\* is as it was and pool plus active went from 2 to 1.
C30_Witness ==
    /\ harness.op = "clear" /\ maxParticles = 0
    /\ Len(harness.pool) = 1 /\ Len(harness.loopActive) = 1
    /\ harness.loopActive[1] \notin DOMAIN particles
    /\ particlePool = harness.pool /\ activeParticles = <<>>

====
